---------------------------- MODULE Spec2Model ----------------------------
(***************************************************************************)
(* A model of rs/xlog: the OutputChannel (bounded queue, consumer          *)
(* goroutine, Flush, Close), the logger's record assembly (logger.send),   *)
(* the Fatal path and extractFields.                                       *)
(*                                                                         *)
(* Spec        the OutputChannel with its consumer goroutine and a set of  *)
(*             caller goroutines using a channel-backed logger.            *)
(* SpecLogger  one logger writing synchronously to a RecorderOutput.       *)
(* SpecExtract extractFields applied to every short argument list.         *)
(* SpecOutput  one output combinator (MultiOutput, LevelOutput,            *)
(*             FilterOutput, NewTrimOutput, NewTrimFieldsOutput) over      *)
(*             recording children.                                         *)
(* SpecFields  loggers made by New and Copy, their field maps as shared    *)
(*             references: SetField, SetFields, GetFields.                  *)
(* SpecPool    the NewHandler middleware serving requests on two           *)
(*             goroutines with loggers from loggerPool.                    *)
(* SpecLevel   LevelFromString and Level.String on level names, their      *)
(*             variants and decimal numbers.                               *)
(* SpecConsole consoleOutput.Write on one record.                          *)
(***************************************************************************)
EXTENDS Integers, Sequences, FiniteSets, TLC

\* ------------------------------------------------------------------ bounds
\* capacity of oc.input (the bufSize argument of NewOutputChannelBuffer)
BufSize == 2
\* number of records the callers try to send in one behaviour
MaxRecords == 3
\* number of Close calls made directly on the OutputChannel in one behaviour
MaxCloses == 2
\* number of Fatal calls in one behaviour
MaxFatals == 1
\* number of log calls on the synchronous logger in one behaviour
MaxCalls == 2
\* longest argument list handed to extractFields
MaxArgs == 3
\* longest list of children of a MultiOutput
MaxChildren == 2
\* number of Write calls made on the output under test in one behaviour
MaxWrites == 2
\* longest string value (in bytes) of a record handed to a trim wrapper
MaxStrLen == 3
\* largest maxLen a trim wrapper is built with
MaxTrim == 2
\* number of calls made on the loggers and their maps in one behaviour
MaxOps == 3
\* number of requests the handlers serve in one behaviour
MaxRequests == 3
\* largest Level value handed to Level.String (the defined ones are 0..4)
MaxLevel == 6

\* ------------------------------------------------------- program constants
LevelDebug == 0
LevelInfo == 1
LevelWarn == 2
LevelError == 3
LevelFatal == 4

KeyTime == "time"
KeyMessage == "message"
KeyLevel == "level"
KeyFile == "file"

\* the caller goroutines
Threads == {"g1", "g2"}

VARIABLES
    \* ---- OutputChannel
    input,      \* oc.input: the buffered channel, as the sequence of queued records
    stop,       \* oc.stop: "chan" (the channel made by the constructor) or "nil"
    stopClosed, \* TRUE once close(oc.stop) ran
    cpc,        \* the consumer goroutine: "select", "write", "close", "done"
    cmsg,       \* the record the consumer received and has not yet written
    sink,       \* what the wrapped output received, in order
    \* ---- caller goroutines
    pc,         \* position of each caller
    op,         \* the public call each caller is in
    tmsg,       \* the record a caller's Flush received and has not yet written
    \* ---- channel-backed logger, critical logger, exit hook
    llevel,     \* l.level
    critSend,   \* number of "send error: ..." lines the critical logger printed
    exits,      \* number of calls of exit1
    \* ---- history
    nextId,     \* message text of the next record (1, 2, ...)
    accepted,   \* ids for which oc.Write returned nil
    dropped,    \* ids for which oc.Write returned ErrBufferFull
    producers,  \* the callers that have called oc.Write
    closes,     \* number of direct Close calls made
    fatals,     \* number of Fatal calls made
    closeRets,  \* number of Close calls (direct, or made by Fatal) that returned
    snap,       \* per caller: the ids accepted when its Close or Flush was
                \* called, or when its logger.Write had sent its record, or
                \* accepted when its Fatal had sent its record
    dirty,      \* per caller: an oc.Write ran since its Close was called
    watch,      \* the callers whose Flush calls are counted
    fcount,     \* history, per caller in watch: the records its running Flush,
                \* or the drain of its Close, has handed to the wrapped output
    failing,    \* the records (message texts) for which the wrapped output's
                \* Write returns an error
    failed,     \* the records whose write returned an error, in order
    critWrite,  \* number of "cannot write log message: ..." lines the critical
                \* logger printed
    \* ---- a logger with a synchronous output (SpecLogger)
    lg,         \* the logger: level, output, fields, disablePooling
    rec,        \* RecorderOutput.Messages of its output
    ncalls,     \* history: number of log calls made
    lastCall,   \* history: level and fields of the latest log call
    \* ---- extractFields (SpecExtract)
    xin,        \* the argument list the caller passed
    xargs,      \* *v: the argument list, as extractFields leaves it
    xf,         \* the fields extractFields returned
    xe,         \* the error extractFields returned
    xpc,        \* "call" before extractFields ran, "done" after
    \* ---- the output combinators (SpecOutput)
    out,        \* the output under test: its kind and its configuration
    ofields,    \* the map handed to Write (the wrappers change it in place)
    oorig,      \* history: that map as it was before the first Write
    ocalls,     \* the Write calls the children received, in order
    oret,       \* what the latest Write returned
    oconds,     \* number of times FilterOutput.Cond was evaluated
    nwrites,    \* number of Write calls made
    \* ---- loggers and their field maps (SpecFields, SpecPool)
    maps,       \* the maps allocated so far; a reference i > 0 is maps[i], 0 is nil
    lgs,        \* the logger instances allocated so far: level, output, fields
                \* (a reference), disablePooling
    fpanic,     \* TRUE once a call panicked
    cfg,        \* the Config the caller holds; cfg.Fields is a reference
    got,        \* the reference the latest GetFields returned; -1 before
    nops,       \* number of calls made
    lastOp,     \* history: the latest call and its arguments
    \* ---- NewHandler and loggerPool (SpecPool)
    pool,       \* loggerPool: the logger instances it holds
    rq,         \* per handler goroutine: its position, its request, its logger
    precs,      \* what the output received: the records, each with the request
                \* and the logger instance it was logged by
    nreq,       \* number of requests started
    \* ---- Level.String and LevelFromString (SpecLevel)
    lvIn,       \* the Level handed to String
    nameIn,     \* the string handed to LevelFromString, as its bytes
    strOut,     \* what String returned, as its bytes
    lvOut,      \* what LevelFromString returned: the level and the error
    lvpc,       \* "call" before a call, "parsed" or "roundtrip" after
    \* ---- consoleOutput.Write (SpecConsole)
    crec,       \* the record handed to Write
    cwerr,      \* what o.w.Write returns when it is called
    cres,       \* the outcome: panic or return, the error, the level tag printed
    conpc,      \* "call" before Write, "done" after
    \* ---- logstashOutput.Write (SpecLogstash)
    lsrec,      \* the record handed to Write
    lswerr,     \* what o.w.Write returns when it is called
    lsord,      \* history: the order in which range visited the keys
    lsres,      \* what Write marshalled (lsf), and the error it returned
    lspc,       \* "call" before Write, "done" after
    \* ---- Handler.Start, Stop and SetOutput (SpecHandler)
    hmu,        \* h.mu: "free" or "locked"
    hstop,      \* h.stop: 0 is nil, c > 0 is the c-th channel Start made
    hclosed,    \* the channels Stop closed
    hvals,      \* history: the values written to h.stop that a goroutine's
                \* unsynchronised read can still return
    hinput,     \* h.input: the queued records
    houtput,    \* h.output
    hsink,      \* what the outputs received: the record and the output
    hgs,        \* the goroutines Start started: position, the channel the
                \* select waits on, the record received
    hpc,        \* position of each caller
    hret,       \* per caller: how its latest call returned
    hstopped,   \* history: a Stop returned, no Start was running then and
                \* none was called since
    hlate,      \* history: the records placed on h.input while hstopped
    hncalls,    \* number of calls made
    hnrecs      \* number of records placed on h.input

chanVars == <<input, stop, stopClosed, cpc, cmsg, sink>>
callVars == <<pc, op, tmsg>>
logVars == <<llevel, critSend, exits>>
histVars == <<nextId, accepted, dropped, producers, closes, fatals, closeRets, snap, dirty>>
obsVars == <<watch, fcount, failing, failed, critWrite>>
lgVars == <<lg, rec, ncalls, lastCall>>
xVars == <<xin, xargs, xf, xe, xpc>>
outVars == <<out, ofields, oorig, ocalls, oret, oconds, nwrites>>
storeVars == <<maps, lgs, fpanic>>
fldVars == <<cfg, got, nops, lastOp>>
poolVars == <<pool, rq, precs, nreq>>
\* the variables of SpecLogger and the specifications before it
oldVars == <<chanVars, callVars, logVars, histVars, obsVars, lgVars, xVars>>
\* the variables of the specifications that follow SpecExtract
levelVars == <<lvIn, nameIn, strOut, lvOut, lvpc>>
conVars == <<crec, cwerr, cres, conpc>>
fmtVars == <<levelVars, conVars>>
lsVars == <<lsrec, lswerr, lsord, lsres, lspc>>
\* the variables of the specifications that follow SpecConsole
hdVars == <<hmu, hstop, hclosed, hvals, hinput, houtput, hsink, hgs, hpc,
            hret, hstopped, hlate, hncalls, hnrecs>>
moreVars == <<lsVars, hdVars>>
newVars == <<outVars, storeVars, fldVars, poolVars, fmtVars, moreVars>>
\* what the OutputChannel's actions leave alone
offChan == <<lgVars, xVars, newVars>>
vars == <<chanVars, callVars, logVars, histVars, obsVars, lgVars, xVars, newVars>>

\* ------------------------------------------------------------------ maps
EmptyMap == [k \in {} |-> 0]

\* for k, v := range over { base[k] = v }
Merge(base, over) ==
    [k \in DOMAIN base \cup DOMAIN over |->
        IF k \in DOMAIN over THEN over[k] ELSE base[k]]

\* Level.String
LevelString(l) ==
    CASE l = LevelDebug -> "debug"
      [] l = LevelInfo -> "info"
      [] l = LevelWarn -> "warn"
      [] l = LevelError -> "error"
      [] l = LevelFatal -> "fatal"
      [] OTHER -> ToString(l)

\* a logger's fields: l.fields is nil, or a map
NilFields == [nil |-> TRUE, kv |-> EmptyMap]
MapFields(m) == [nil |-> FALSE, kv |-> m]

\* a gate that also swallows a call at the logger's own level
Gated_Inclusive(level, minLevel, hasOutput) == level <= minLevel \/ ~hasOutput

\* logger.send, the gate: level < l.level || l.output == nil
Gated(level, minLevel, hasOutput) == level < minLevel \/ ~hasOutput

\* logger.send, the record: time, level, message and file, then the fields of
\* the call, then the logger's own fields
SendData(level, msg, fields, lfields) ==
    LET data == (KeyTime :> "now") @@ (KeyLevel :> LevelString(level))
                @@ (KeyMessage :> msg) @@ (KeyFile :> "file.go:1")
        withCall == Merge(data, fields)
    IN  IF lfields.nil THEN withCall ELSE Merge(withCall, lfields.kv)

\* the nil error
NoErr == [kind |-> "nil", v |-> "nil"]

\* ---------------------------------------------------------- OutputChannel
NoMsg == (KeyMessage :> 0)
MsgId(r) == r[KeyMessage]
Ids(s) == {MsgId(s[i]) : i \in 1..Len(s)}

\* a Write that always enqueues (an unbounded buffer)
OcWrite_Unbounded(q, r) == [input |-> Append(q, r), err |-> "nil"]

\* OutputChannel.Write: the non-blocking send on oc.input
OcWrite(q, r) ==
    IF Len(q) < BufSize
    THEN [input |-> Append(q, r), err |-> "nil"]
    ELSE [input |-> q, err |-> "ErrBufferFull"]

\* a wrapped output that loses every record
OutputWrite_Lose(s, m, f) == [sink |-> s, err |-> "nil"]

\* o.Write(msg) of the wrapped output, which records what it is handed: the
\* records it holds afterwards and the error it returns
OutputWrite(s, m, f) ==
    IF MsgId(m) \in f
    THEN [sink |-> s, err |-> "error"]
    ELSE [sink |-> Append(s, m), err |-> "nil"]

\* a consumer that reports a failed write twice
CritAfterWrite_Twice(c, err) == IF err = "nil" THEN c ELSE c + 2

\* if err := o.Write(msg); err != nil { critialLogger.Print("cannot write ...") }
CritAfterWrite(c, err) == IF err = "nil" THEN c ELSE c + 1

\* a send that swallows the error of output.Write
CritAfterSend_Silent(c, err) == c

\* logger.send: if err := l.output.Write(data); err != nil { critialLogger.Print }
CritAfterSend(c, err) == IF err = "nil" THEN c ELSE c + 1

\* logger.send on the channel-backed logger of caller t
Send(t, level) ==
    IF Gated(level, llevel, TRUE)
    THEN UNCHANGED <<input, critSend, nextId, accepted, dropped, producers, dirty>>
    ELSE LET r == SendData(level, nextId, EmptyMap, NilFields)
             w == OcWrite(input, r)
         IN  /\ nextId <= MaxRecords
             /\ input' = w.input
             /\ critSend' = CritAfterSend(critSend, w.err)
             /\ nextId' = nextId + 1
             /\ accepted' = IF w.err = "nil" THEN accepted \cup {nextId} ELSE accepted
             /\ dropped' = IF w.err = "nil" THEN dropped ELSE dropped \cup {nextId}
             /\ producers' = producers \cup {t}
             /\ dirty' = [u \in Threads |-> dirty[u] \/ op[u] = "Close"]

\* the logger of SpecLogger and the variables of SpecExtract, at rest
LoggerIdle ==
    /\ lg = [level |-> LevelDebug, output |-> "recorder", fields |-> NilFields,
             disablePooling |-> TRUE]
    /\ rec = <<>>
    /\ ncalls = 0
    /\ lastCall = [level |-> LevelDebug, fields |-> EmptyMap]

ExtractIdle ==
    /\ xin = <<>>
    /\ xargs = <<>>
    /\ xf = NilFields
    /\ xe = NoErr
    /\ xpc = "call"

\* the variables of SpecOutput, at rest
OutputIdle ==
    /\ out = [kind |-> "none"]
    /\ ofields = EmptyMap
    /\ oorig = EmptyMap
    /\ ocalls = <<>>
    /\ oret = NoErr
    /\ oconds = 0
    /\ nwrites = 0

\* the handler goroutines
Reqs == {"h1", "h2"}
\* the nil map
Nil == 0
\* no reference
NoRef == -1

\* no map and no logger allocated
StoreIdle ==
    /\ maps = <<>>
    /\ lgs = <<>>
    /\ fpanic = FALSE

\* the variables of SpecFields, at rest
FieldsIdle ==
    /\ cfg = [Level |-> LevelDebug, Output |-> "nil", Fields |-> Nil,
              DisablePooling |-> FALSE]
    /\ got = NoRef
    /\ nops = 0
    /\ lastOp = [op |-> "none"]

\* the variables of SpecPool, at rest
PoolIdle ==
    /\ pool = {}
    /\ rq = [h \in Reqs |-> [pc |-> "idle", req |-> 0, l |-> 0]]
    /\ precs = {}
    /\ nreq = 0

\* the variables of SpecLevel, at rest
LevelIdle ==
    /\ lvIn = 0
    /\ nameIn = <<>>
    /\ strOut = <<>>
    /\ lvOut = [l |-> 0, err |-> NoErr]
    /\ lvpc = "call"

\* the variables of SpecConsole, at rest
ConsoleIdle ==
    /\ crec = EmptyMap
    /\ cwerr = NoErr
    /\ cres = [panic |-> FALSE, err |-> NoErr, tag |-> <<>>]
    /\ conpc = "call"

FmtIdle == LevelIdle /\ ConsoleIdle

\* the variables of SpecLogstash, at rest
LogstashIdle ==
    /\ lsrec = EmptyMap
    /\ lswerr = NoErr
    /\ lsord = <<>>
    /\ lsres = [lsf |-> EmptyMap, err |-> NoErr]
    /\ lspc = "call"

\* the variables of SpecHandler, at rest
HandlerIdle ==
    /\ hmu = "free"
    /\ hstop = 0
    /\ hclosed = {}
    /\ hvals = {}
    /\ hinput = <<>>
    /\ houtput = "o1"
    /\ hsink = <<>>
    /\ hgs = <<>>
    /\ hpc = [t \in Threads |-> "idle"]
    /\ hret = [t \in Threads |-> "none"]
    /\ hstopped = FALSE
    /\ hlate = {}
    /\ hncalls = 0
    /\ hnrecs = 0

MoreIdle == LogstashIdle /\ HandlerIdle

NewIdle == OutputIdle /\ StoreIdle /\ FieldsIdle /\ PoolIdle /\ FmtIdle /\ MoreIdle

\* NewOutputChannelBuffer(o, BufSize), and a logger made by New with it as output
ChanStart ==
    /\ input = <<>>
    /\ stop = "chan"
    /\ stopClosed = FALSE
    /\ cpc = "select"
    /\ cmsg = NoMsg
    /\ sink = <<>>
    /\ pc = [t \in Threads |-> "idle"]
    /\ op = [t \in Threads |-> "none"]
    /\ tmsg = [t \in Threads |-> NoMsg]
    /\ llevel \in {LevelDebug, LevelFatal + 1}
    /\ critSend = 0
    /\ exits = 0
    /\ nextId = 1
    /\ accepted = {}
    /\ dropped = {}
    /\ producers = {}
    /\ closes = 0
    /\ fatals = 0
    /\ closeRets = 0
    /\ snap = [t \in Threads |-> {}]
    /\ dirty = [t \in Threads |-> FALSE]
    /\ fcount = [t \in Threads |-> 0]
    /\ failed = <<>>
    /\ critWrite = 0

\* the wrapped output takes every record, and no history of Flush is kept
ChanInit == ChanStart /\ failing = {} /\ watch = {}

Init == ChanInit /\ LoggerIdle /\ ExtractIdle /\ NewIdle

\* ---- the consumer goroutine of NewOutputChannelBuffer
\* case msg := <-oc.input
ConsumerRecv ==
    /\ UNCHANGED <<offChan, obsVars>>
    /\ cpc = "select"
    /\ input # <<>>
    /\ cmsg' = Head(input)
    /\ input' = Tail(input)
    /\ cpc' = "write"
    /\ UNCHANGED <<stop, stopClosed, sink, callVars, logVars, histVars>>

\* o.Write(msg)
ConsumerWrite ==
    /\ UNCHANGED offChan
    /\ cpc = "write"
    /\ LET w == OutputWrite(sink, cmsg, failing)
       IN  /\ sink' = w.sink
           /\ critWrite' = CritAfterWrite(critWrite, w.err)
           /\ failed' = IF w.err = "nil" THEN failed ELSE Append(failed, MsgId(cmsg))
    /\ cmsg' = NoMsg
    /\ cpc' = "select"
    /\ UNCHANGED <<input, stop, stopClosed, callVars, logVars, histVars, watch, fcount, failing>>

\* case <-oc.stop, meeting the caller blocked in oc.stop <- struct{}{}
ConsumerStop(t) ==
    /\ UNCHANGED <<offChan, obsVars>>
    /\ cpc = "select"
    /\ pc[t] = "close_send"
    /\ ~stopClosed
    /\ cpc' = "close"
    /\ pc' = [pc EXCEPT ![t] = "close_recv"]
    /\ UNCHANGED <<input, stop, stopClosed, cmsg, sink, op, tmsg, logVars, histVars>>

\* a consumer that goes back to its select after the stop signal
ConsumerAfterStop_Loop == "select"

\* case <-oc.stop: close(oc.stop); return: where the consumer goes
ConsumerAfterStop == "done"

\* close(oc.stop); return
ConsumerClose ==
    /\ UNCHANGED <<offChan, obsVars>>
    /\ cpc = "close"
    /\ stopClosed' = TRUE
    /\ cpc' = ConsumerAfterStop
    /\ UNCHANGED <<input, stop, cmsg, sink, callVars, logVars, histVars>>

\* ---- OutputChannel.Flush
FlushCall(t) ==
    /\ UNCHANGED <<offChan, obsVars>>
    /\ pc[t] = "idle"
    /\ pc' = [pc EXCEPT ![t] = "flush_sel"]
    /\ op' = [op EXCEPT ![t] = "Flush"]
    /\ snap' = [snap EXCEPT ![t] = accepted]
    /\ UNCHANGED <<chanVars, tmsg, logVars, nextId, accepted, dropped, producers,
                   closes, fatals, closeRets, dirty>>

\* where a caller continues when the Flush it is in returns
AfterFlush(o) == IF o = "Fatal" THEN "exit" ELSE "idle"

\* select { case msg := <-oc.input: ... default: return }
FlushSelect(t) ==
    /\ UNCHANGED offChan
    /\ pc[t] = "flush_sel"
    /\ IF input # <<>>
       THEN /\ tmsg' = [tmsg EXCEPT ![t] = Head(input)]
            /\ input' = Tail(input)
            /\ pc' = [pc EXCEPT ![t] = "flush_wr"]
            /\ UNCHANGED <<op, closeRets, fcount>>
       ELSE /\ pc' = [pc EXCEPT ![t] = AfterFlush(op[t])]
            /\ fcount' = [fcount EXCEPT ![t] = 0]
            /\ op' = [op EXCEPT ![t] = IF op[t] = "Fatal" THEN "Fatal" ELSE "none"]
            /\ closeRets' = IF op[t] \in {"Close", "Fatal"} THEN closeRets + 1
                                                              ELSE closeRets
            /\ UNCHANGED <<tmsg, input>>
    /\ UNCHANGED <<stop, stopClosed, cpc, cmsg, sink, logVars, nextId, accepted,
                   dropped, producers, closes, fatals, snap, dirty, watch, failing,
                   failed, critWrite>>

\* oc.output.Write(msg)
FlushWrite(t) ==
    /\ UNCHANGED offChan
    /\ pc[t] = "flush_wr"
    /\ LET w == OutputWrite(sink, tmsg[t], failing)
       IN  /\ sink' = w.sink
           /\ critWrite' = CritAfterWrite(critWrite, w.err)
           /\ failed' = IF w.err = "nil" THEN failed ELSE Append(failed, MsgId(tmsg[t]))
    /\ fcount' = IF t \in watch THEN [fcount EXCEPT ![t] = @ + 1] ELSE fcount
    /\ tmsg' = [tmsg EXCEPT ![t] = NoMsg]
    /\ pc' = [pc EXCEPT ![t] = "flush_sel"]
    /\ UNCHANGED <<input, stop, stopClosed, cpc, cmsg, op, logVars, histVars, watch, failing>>

\* ---- OutputChannel.Close
\* a Close without the nil guard
CloseEntry_NoGuard(o) == "close_send"

\* if oc.stop == nil { return }: where the caller goes from the entry of Close.
\* oc.stop is read and written without synchronisation. A Close that overlaps
\* another one reads it before or after the other's oc.stop = nil, as the
\* interleaving decides; a Close called after another one returned is taken to
\* see nil.
CloseEntry(o) ==
    IF stop = "nil" THEN AfterFlush(o) ELSE "close_send"

CloseCall(t) ==
    /\ UNCHANGED <<offChan, obsVars>>
    /\ pc[t] = "idle"
    /\ closes < MaxCloses
    /\ closes' = closes + 1
    /\ pc' = [pc EXCEPT ![t] = CloseEntry("Close")]
    /\ op' = [op EXCEPT ![t] = IF stop = "nil" THEN "none" ELSE "Close"]
    /\ closeRets' = IF stop = "nil" THEN closeRets + 1 ELSE closeRets
    /\ snap' = [snap EXCEPT ![t] = accepted]
    /\ dirty' = [dirty EXCEPT ![t] = FALSE]
    /\ UNCHANGED <<chanVars, tmsg, logVars, nextId, accepted, dropped, producers, fatals>>

\* oc.stop <- struct{}{} on the channel the consumer has closed: panic
ClosePanic(t) ==
    /\ UNCHANGED <<offChan, obsVars>>
    /\ pc[t] = "close_send"
    /\ stopClosed
    /\ pc' = [pc EXCEPT ![t] = "panic"]
    /\ UNCHANGED <<chanVars, op, tmsg, logVars, histVars>>

\* oc.stop <- struct{}{} when oc.stop reads nil: a send on a nil channel
CloseBlock(t) ==
    /\ UNCHANGED <<offChan, obsVars>>
    /\ pc[t] = "close_send"
    /\ stop = "nil"
    /\ pc' = [pc EXCEPT ![t] = "blocked"]
    /\ UNCHANGED <<chanVars, op, tmsg, logVars, histVars>>

\* <-oc.stop returns once the consumer closed the channel
CloseRecv(t) ==
    /\ UNCHANGED <<offChan, obsVars>>
    /\ pc[t] = "close_recv"
    /\ stopClosed
    /\ pc' = [pc EXCEPT ![t] = "close_nil"]
    /\ UNCHANGED <<chanVars, op, tmsg, logVars, histVars>>

\* oc.stop = nil; oc.Flush()
CloseNil(t) ==
    /\ UNCHANGED <<offChan, obsVars>>
    /\ pc[t] = "close_nil"
    /\ stop' = "nil"
    /\ pc' = [pc EXCEPT ![t] = "flush_sel"]
    /\ UNCHANGED <<input, stopClosed, cpc, cmsg, sink, op, tmsg, logVars, histVars>>

\* ---- the logger
\* logger.Info (and Debug, Warn, Error, Output): send only
LogCall(t) ==
    /\ UNCHANGED <<offChan, obsVars>>
    /\ pc[t] = "idle"
    /\ nextId <= MaxRecords
    /\ Send(t, LevelInfo)
    /\ UNCHANGED <<stop, stopClosed, cpc, cmsg, sink, callVars, llevel, exits,
                   closes, fatals, closeRets, snap>>

\* logger.Write: send, then Flush of the OutputChannel
LoggerWriteCall(t) ==
    /\ UNCHANGED <<offChan, obsVars>>
    /\ pc[t] = "idle"
    /\ nextId <= MaxRecords
    /\ Send(t, LevelInfo)
    /\ pc' = [pc EXCEPT ![t] = "flush_sel"]
    /\ op' = [op EXCEPT ![t] = "LoggerWrite"]
    /\ snap' = [snap EXCEPT ![t] = accepted']
    /\ UNCHANGED <<stop, stopClosed, cpc, cmsg, sink, tmsg, llevel, exits,
                   closes, fatals, closeRets>>

\* logger.Fatal / Fatalf: send
FatalCall(t) ==
    /\ UNCHANGED <<offChan, obsVars>>
    /\ pc[t] = "idle"
    /\ fatals < MaxFatals
    /\ nextId <= MaxRecords
    /\ fatals' = fatals + 1
    /\ Send(t, LevelFatal)
    /\ snap' = [snap EXCEPT ![t] = accepted']
    /\ pc' = [pc EXCEPT ![t] = "fatal_close"]
    /\ op' = [op EXCEPT ![t] = "Fatal"]
    /\ UNCHANGED <<stop, stopClosed, cpc, cmsg, sink, tmsg, llevel, exits, closes,
                   closeRets>>

\* logger.Fatal: o.Close()
FatalClose(t) ==
    /\ UNCHANGED <<offChan, obsVars>>
    /\ pc[t] = "fatal_close"
    /\ pc' = [pc EXCEPT ![t] = CloseEntry("Fatal")]
    /\ closeRets' = IF stop = "nil" THEN closeRets + 1 ELSE closeRets
    /\ UNCHANGED <<chanVars, op, tmsg, logVars, nextId, accepted, dropped, producers,
                   closes, fatals, snap, dirty>>

\* logger.Fatal: exit1(), with the hook replaced by one that returns
Exit(t) ==
    /\ UNCHANGED <<offChan, obsVars>>
    /\ pc[t] = "exit"
    /\ exits' = exits + 1
    /\ pc' = [pc EXCEPT ![t] = "idle"]
    /\ op' = [op EXCEPT ![t] = "none"]
    /\ UNCHANGED <<chanVars, tmsg, llevel, critSend, histVars>>

\* nop.Fatal / nop.Fatalf on NopLogger: exit1()
NopFatal(t) ==
    /\ UNCHANGED <<offChan, obsVars>>
    /\ pc[t] = "idle"
    /\ fatals < MaxFatals
    /\ fatals' = fatals + 1
    /\ exits' = exits + 1
    /\ UNCHANGED <<chanVars, callVars, llevel, critSend, nextId, accepted, dropped,
                   producers, closes, closeRets, snap, dirty>>

Next ==
    \/ ConsumerRecv
    \/ ConsumerWrite
    \/ ConsumerClose
    \/ \E t \in Threads :
        \/ ConsumerStop(t)
        \/ FlushCall(t)
        \/ FlushSelect(t)
        \/ FlushWrite(t)
        \/ CloseCall(t)
        \/ ClosePanic(t)
        \/ CloseBlock(t)
        \/ CloseRecv(t)
        \/ CloseNil(t)
        \/ LogCall(t)
        \/ LoggerWriteCall(t)
        \/ FatalCall(t)
        \/ FatalClose(t)
        \/ Exit(t)
        \/ NopFatal(t)

Spec == Init /\ [][Next]_vars

\* the consumer, Write (through the log calls), Flush and Close
NextChannel ==
    \/ ConsumerRecv
    \/ ConsumerWrite
    \/ ConsumerClose
    \/ \E t \in Threads :
        \/ ConsumerStop(t)
        \/ FlushCall(t)
        \/ FlushSelect(t)
        \/ FlushWrite(t)
        \/ CloseCall(t)
        \/ ClosePanic(t)
        \/ CloseBlock(t)
        \/ CloseRecv(t)
        \/ CloseNil(t)
        \/ LogCall(t)
        \/ LoggerWriteCall(t)

\* the same channel and logger, with the Flush calls of every caller counted
InitDrain ==
    /\ ChanStart
    /\ llevel = LevelDebug
    /\ failing = {}
    /\ watch = Threads
    /\ LoggerIdle
    /\ ExtractIdle
    /\ NewIdle

SpecDrain == InitDrain /\ [][NextChannel]_vars

\* the same channel and logger, in front of an output whose Write returns an
\* error for one of the first records
InitErr ==
    /\ ChanStart
    /\ llevel = LevelDebug
    /\ failing \in {{1}, {2}, {1, 2}}
    /\ watch = {}
    /\ LoggerIdle
    /\ ExtractIdle
    /\ NewIdle

SpecErr == InitErr /\ [][NextChannel]_vars

\* the channel while Close is not called: the consumer, the log calls, Flush
NextLive ==
    \/ ConsumerRecv
    \/ ConsumerWrite
    \/ \E t \in Threads :
        \/ FlushCall(t)
        \/ FlushSelect(t)
        \/ FlushWrite(t)
        \/ LogCall(t)
        \/ LoggerWriteCall(t)

\* the scheduler runs every goroutine that can take a step: the consumer, and
\* a caller that is inside Flush
FairLive ==
    /\ WF_vars(ConsumerRecv)
    /\ WF_vars(ConsumerWrite)
    /\ \A t \in Threads : WF_vars(FlushSelect(t)) /\ WF_vars(FlushWrite(t))

InitLive == Init /\ llevel = LevelDebug

SpecLive == InitLive /\ [][NextLive]_vars /\ FairLive

\* ------------------------------------------------------------ the claims
Min(a, b) == IF a < b THEN a ELSE b
Last(s) == s[Len(s)]
\* the records a goroutine has taken off the queue and not yet written
Held == {cmsg} \cup {tmsg[t] : t \in Threads}
\* a step in which oc.Write ran, for the record with message text nextId
WriteStep == nextId' = nextId + 1

\* C1: OutputChannel.Write never blocks: a caller that can call it can always
\* complete it; with a free slot the record is appended to the queue and Write
\* returns nil; with bufSize records queued Write returns ErrBufferFull, the
\* queue is unchanged, and a refused record is never queued, held or written.
C1_WriteNeverBlocks ==
    /\ [](Len(input) <= BufSize)
    /\ [](\A t \in Threads :
            (pc[t] = "idle" /\ nextId <= MaxRecords) => ENABLED LogCall(t))
    /\ [](dropped \cap (Ids(input) \cup Ids(sink) \cup {MsgId(r) : r \in Held}) = {})
    /\ [][WriteStep =>
            IF Len(input) < BufSize
            THEN /\ Len(input') = Len(input) + 1
                 /\ input' = Append(input, Last(input'))
                 /\ MsgId(Last(input')) = nextId
                 /\ nextId \in accepted' /\ nextId \notin dropped'
            ELSE /\ input' = input
                 /\ nextId \in dropped' /\ nextId \notin accepted']_vars

\* C1 witness: a Write was refused on a full queue after others were accepted
C1_Witness == dropped # {} /\ accepted # {} /\ Len(input) = BufSize

\* nothing has been taken off the queue yet: the consumer is stalled
Stalled == Len(input) = Cardinality(accepted)

\* C2: a send never blocks; the critical logger holds exactly one "send error"
\* line per dropped record and none for an accepted one; while the consumer is
\* stalled the first bufSize records are accepted and every later one is dropped.
C2_DropDiagnostics ==
    /\ critSend = Cardinality(dropped)
    /\ \A t \in Threads :
          (pc[t] = "idle" /\ nextId <= MaxRecords) => ENABLED LogCall(t)
    /\ Stalled => /\ accepted = 1..Min(nextId - 1, BufSize)
                  /\ dropped = (BufSize + 1)..(nextId - 1)

\* C2 witness: bufSize + 1 records sent to a stalled consumer, the last dropped
C2_Witness ==
    /\ Stalled
    /\ nextId - 1 = BufSize + 1
    /\ dropped = {BufSize + 1}
    /\ critSend = 1

\* C3: with a single producer, the wrapped output receives the records in the
\* order Write accepted them (message texts are handed out in the order of the
\* sends), whatever the consumer, Flush and Close do.
C3_SinkInAcceptOrder ==
    Cardinality(producers) <= 1 =>
        \A i, j \in 1..Len(sink) : i < j => MsgId(sink[i]) < MsgId(sink[j])

\* the goroutines receiving from oc.input or executing the wrapped output's Write
Readers ==
    (IF cpc \in {"select", "write"} THEN {"consumer"} ELSE {})
        \cup {t \in Threads : pc[t] \in {"flush_sel", "flush_wr"}}

\* C4: at most one goroutine at a time receives from the queue or executes the
\* wrapped output's Write: the consumer, a Flush and Close's drain never overlap.
C4_SingleReader == Cardinality(Readers) <= 1

\* a step in which the Close call of caller t, which found oc.stop set, returns
CloseReturns(t) ==
    op[t] = "Close" /\ pc[t] = "flush_sel" /\ pc'[t] = "idle"

\* C5: when Close returns and no Write ran during it, every record accepted
\* before Close was called has been written to the wrapped output, the queue is
\* empty and the consumer goroutine has exited.
C5_CloseDrains ==
    [][\A t \in Threads :
         (CloseReturns(t) /\ ~dirty[t]) =>
             /\ snap[t] \subseteq Ids(sink')
             /\ input' = <<>>
             /\ cpc' = "done"]_vars

\* C6: once a first Close has returned oc.stop is nil, and a further Close call
\* (direct, or the one Fatal makes) returns in the step that calls it, without
\* blocking or panicking and without touching the queue or the wrapped output.
C6_SecondCloseReturns ==
    /\ [](closeRets >= 1 => stop = "nil")
    /\ [][(closeRets >= 1 /\ closes' = closes + 1) =>
             /\ pc' = pc
             /\ closeRets' = closeRets + 1
             /\ sink' = sink /\ input' = input]_vars
    /\ [][\A t \in Threads :
            (closeRets >= 1 /\ pc[t] = "fatal_close" /\ pc'[t] # "fatal_close") =>
                /\ pc'[t] = "exit"
                /\ closeRets' = closeRets + 1
                /\ sink' = sink /\ input' = input]_vars

\* C6 witness: two direct Close calls have returned
C6_Witness ==
    /\ closes = 2
    /\ closeRets = 2
    /\ \A t \in Threads : pc[t] = "idle"

\* C7: every Fatal call runs the exit hook once (also on NopLogger, also when
\* the record was gated or dropped), and when the hook of a channel-backed
\* logger runs the channel is closed, the consumer has exited and every record
\* accepted up to and including the fatal one is in the wrapped output.
C7_FatalFlushesBeforeExit ==
    /\ fatals = exits + Cardinality({t \in Threads : op[t] = "Fatal"})
    /\ \A t \in Threads :
          pc[t] = "exit" =>
              /\ stop = "nil" /\ stopClosed /\ cpc = "done"
              /\ snap[t] \subseteq Ids(sink)

FlushReturns(t) ==
    op[t] \in {"Flush", "LoggerWrite"} /\ pc[t] = "flush_sel" /\ pc'[t] = "idle"

\* C25: when Flush returns, every record Write accepted before Flush was
\* called is in the wrapped output, also while the consumer is running; when
\* logger.Write returns, so is the record it sent, if it was accepted.
C25_FlushDelivers ==
    [][\A t \in Threads : FlushReturns(t) => snap[t] \subseteq Ids(sink')]_vars

\* C23: a Flush, and the drain of a Close, hands at most bufSize records to
\* the wrapped output before it returns, whatever the producers do meanwhile.
C23_BoundedDrain == \A t \in Threads : fcount[t] <= BufSize

\* the records whose write failed, as a set
Failed == {failed[i] : i \in 1..Len(failed)}

\* C24: a write of the wrapped output that fails is reported once to the
\* critical logger and to nobody else, the record is not written and not
\* tried again, and the consumer goes back to its select, where it receives
\* the records queued after it.
C24_FailedWriteSkipped ==
    /\ [](critWrite = Len(failed))
    /\ [](critSend = Cardinality(dropped))
    /\ [](\A i, j \in 1..Len(failed) : failed[i] = failed[j] => i = j)
    /\ [](Failed \cap (Ids(input) \cup Ids(sink) \cup {MsgId(r) : r \in Held}) = {})
    /\ [][(cpc = "write" /\ MsgId(cmsg) \in failing /\ cpc' # "write") =>
            /\ cpc' = "select"
            /\ critWrite' = critWrite + 1
            /\ failed' = Append(failed, MsgId(cmsg))
            /\ sink' = sink /\ input' = input
            /\ pc' = pc /\ critSend' = critSend
            /\ accepted' = accepted /\ dropped' = dropped]_vars
    /\ []((cpc = "select" /\ input # <<>>) => ENABLED ConsumerRecv)

\* C24 witness: with no Flush or Close called, the write of record 1 failed
\* and record 2, queued behind it, was written
C24_Witness ==
    /\ failed = <<1>>
    /\ Ids(sink) = {2}
    /\ closes = 0
    /\ \A t \in Threads : snap[t] = {} /\ pc[t] = "idle"

\* C27: while Close is not called and the wrapped output's writes return,
\* every record Write accepted is eventually in the wrapped output, and the
\* wrapped output never receives a record twice, nor one that was not accepted.
C27_EventuallyWrittenOnce ==
    /\ \A i \in 1..MaxRecords : (i \in accepted) ~> (i \in Ids(sink))
    /\ [](\A i, j \in 1..Len(sink) : MsgId(sink[i]) = MsgId(sink[j]) => i = j)
    /\ [](Ids(sink) \subseteq accepted)

\* C27 witness: MaxRecords records were accepted, and all are in the wrapped
\* output
C27_Witness ==
    /\ accepted = 1..MaxRecords
    /\ Ids(sink) = accepted
    /\ Len(sink) = MaxRecords

\* C26: two Close calls that run concurrently both return: neither panics on
\* a send on the closed stop channel, neither blocks for ever.
C26_ConcurrentCloseReturns ==
    \A t \in Threads : pc[t] \notin {"panic", "blocked"}

\* ------------------------------------------- SpecLogger: a synchronous logger
Levels == LevelDebug..LevelFatal
FieldKeys == {"a", "b"}
\* the field maps a log call passes: none, or values that differ from the
\* values SetField gives
CallFields == {EmptyMap, ("a" :> 2), ("a" :> 2) @@ ("b" :> 2)}

ChanIdle == ChanInit /\ llevel = LevelDebug

\* New(Config{Level: lv, Output: &RecorderOutput{}, Fields: f, DisablePooling: true})
InitLogger ==
    /\ ChanIdle
    /\ ExtractIdle
    /\ NewIdle
    /\ \E lv \in Levels, f \in {NilFields, MapFields(("a" :> 1))} :
          lg = [level |-> lv, output |-> "recorder", fields |-> f,
                disablePooling |-> TRUE]
    /\ rec = <<>>
    /\ ncalls = 0
    /\ lastCall = [level |-> LevelDebug, fields |-> EmptyMap]

\* logger.SetField
SetField(name, value) ==
    /\ lg' = [lg EXCEPT !.fields =
                 MapFields(Merge(lg.fields.kv, (name :> value)))]
    /\ UNCHANGED <<rec, ncalls, lastCall>>
    /\ UNCHANGED obsVars
    /\ UNCHANGED <<chanVars, callVars, logVars, histVars, xVars, newVars>>

\* RecorderOutput.Write
RecorderWrite(messages, fields) == Append(messages, fields)

\* logger.Debug ... logger.Fatal with a trailing field map: send(level, ...),
\* and for Fatal exit1() (the output is no OutputChannel: nothing to close)
Log(level, fields) ==
    /\ ncalls < MaxCalls
    /\ ncalls' = ncalls + 1
    /\ lastCall' = [level |-> level, fields |-> fields]
    /\ rec' = IF Gated(level, lg.level, lg.output # "nil")
              THEN rec
              ELSE RecorderWrite(rec, SendData(level, "msg", fields, lg.fields))
    /\ exits' = IF level = LevelFatal THEN exits + 1 ELSE exits
    /\ UNCHANGED lg
    /\ UNCHANGED obsVars
    /\ UNCHANGED <<chanVars, callVars, llevel, critSend, histVars, xVars, newVars>>

NextLogger ==
    \/ \E name \in FieldKeys : SetField(name, 1)
    \/ \E level \in Levels, fields \in CallFields : Log(level, fields)

SpecLogger == InitLogger /\ [][NextLogger]_vars

\* a step in which a log call was made
LogStep == ncalls' = ncalls + 1

\* C8: a call below the logger's level hands nothing to the output and changes
\* nothing else; a call at or above it hands the output exactly one record,
\* which carries the level of the call.
C8_LevelGate ==
    [][LogStep =>
         IF lastCall'.level < lg.level
         THEN rec' = rec /\ lg' = lg /\ exits' = exits /\ critSend' = critSend
         ELSE /\ Len(rec') = Len(rec) + 1
              /\ rec' = Append(rec, Last(rec'))
              /\ Last(rec')[KeyLevel] = LevelString(lastCall'.level)
              /\ lg' = lg]_vars

\* C8 witness: one call below the level was swallowed, one at the level was not
C8_Witness ==
    /\ ncalls = 2
    /\ Len(rec) = 1
    /\ lastCall.level < lg.level
    /\ rec[1][KeyLevel] = LevelString(lg.level)

\* C9: for a key set both on the logger and in the call, the record handed to
\* the output carries the value of the call.
C9_CallFieldsWin ==
    [][(LogStep /\ Len(rec') > Len(rec)) =>
         \A k \in DOMAIN lastCall'.fields \cap DOMAIN lg.fields.kv :
             Last(rec')[k] = lastCall'.fields[k]]_vars

\* ------------------------------------------------ SpecExtract: extractFields
Str(x) == [kind |-> "other", v |-> x]
ErrArg == [kind |-> "error", v |-> "e"]
ArgValues ==
    {Str("a"), Str("b"), ErrArg,
     [kind |-> "map", v |-> ("foo" :> "bar")],
     [kind |-> "F", v |-> ("baz" :> "qux")]}
\* the type assertions .(error), .(map[string]interface{}) and .(F)
IsErr(x) == x.kind = "error"
IsMap(x) == x.kind \in {"map", "F"}
Front(s) == SubSeq(s, 1, Len(s) - 1)

ArgLists == UNION {[1..n -> ArgValues] : n \in 0..MaxArgs}

\* extractFields as it was before errors were handled: the field map only
extractFields_FieldsOnly(v) ==
    IF Len(v) > 0 /\ IsMap(Last(v))
    THEN [v |-> Front(v), f |-> MapFields(Last(v).v), e |-> NoErr]
    ELSE [v |-> v, f |-> NilFields, e |-> NoErr]

\* extractFields
extractFields(v) ==
    LET s1 == IF Len(v) > 1 /\ IsErr(Last(v))
              THEN [v |-> Front(v), e |-> Last(v)]
              ELSE [v |-> v, e |-> NoErr]
        s2 == IF Len(s1.v) > 0 /\ IsMap(Last(s1.v))
              THEN [v |-> Front(s1.v), f |-> MapFields(Last(s1.v).v)]
              ELSE [v |-> s1.v, f |-> NilFields]
        s3 == IF Len(s2.v) > 1 /\ s1.e = NoErr /\ IsErr(Last(s2.v))
              THEN [v |-> Front(s2.v), e |-> Last(s2.v)]
              ELSE [v |-> s2.v, e |-> s1.e]
    IN  [v |-> s3.v, f |-> s2.f, e |-> s3.e]

InitExtract ==
    /\ ChanIdle
    /\ LoggerIdle
    /\ NewIdle
    /\ xin \in ArgLists
    /\ xargs = xin
    /\ xf = NilFields
    /\ xe = NoErr
    /\ xpc = "call"

\* f, e := extractFields(&v)
ExtractCall ==
    /\ xpc = "call"
    /\ LET r == extractFields(xargs)
       IN  xargs' = r.v /\ xf' = r.f /\ xe' = r.e
    /\ xpc' = "done"
    /\ UNCHANGED xin
    /\ UNCHANGED obsVars
    /\ UNCHANGED <<chanVars, callVars, logVars, histVars, lgVars, newVars>>

NextExtract == ExtractCall

SpecExtract == InitExtract /\ [][NextExtract]_vars

\* s is t with its last Len(t) - Len(s) elements removed
IsPrefix(s, t) == Len(s) <= Len(t) /\ s = SubSeq(t, 1, Len(s))
\* the arguments extractFields removed
Removed == SubSeq(xin, Len(xargs) + 1, Len(xin))

\* C10 (as claimed): the field map is removed and returned exactly when it is
\* the final argument; otherwise no fields are returned and every map stays in
\* the list; what remains keeps its order.
C10_MapExtractedIffFinal ==
    xpc = "done" =>
        /\ IsPrefix(xargs, xin)
        /\ IF Len(xin) > 0 /\ IsMap(Last(xin))
           THEN xf = MapFields(Last(xin).v) /\ xargs = Front(xin)
           ELSE /\ xf = NilFields
                /\ \A i \in 1..Len(Removed) : ~IsMap(Removed[i])

\* the position of the field map extractFields looks at: the final argument,
\* or the one before a final error when the list has more than one argument
MapPos ==
    IF Len(xin) > 1 /\ IsErr(Last(xin)) THEN Len(xin) - 1 ELSE Len(xin)

\* C10 (amended): extractFields removes and returns the field map exactly when
\* it is the final argument once one trailing error of a list of more than one
\* argument is set aside; a map in any other position stays and no fields are
\* returned; only trailing arguments are removed (the returned map and at most
\* one error), so the remaining arguments keep their order.
C10_MapExtractedIffFinalBeforeError ==
    xpc = "done" =>
        /\ IsPrefix(xargs, xin)
        /\ IF MapPos > 0 /\ IsMap(xin[MapPos])
           THEN /\ xf = MapFields(xin[MapPos].v)
                /\ Len(xargs) < MapPos
           ELSE /\ xf = NilFields
                /\ \A i \in 1..Len(Removed) : ~IsMap(Removed[i])
        /\ \A i \in 1..Len(Removed) : Removed[i].kind # "other"
        /\ Cardinality({i \in 1..Len(Removed) : IsMap(Removed[i])}) <= 1
        /\ Cardinality({i \in 1..Len(Removed) : IsErr(Removed[i])}) <= 1

\* C10 witness: a map followed by an error was extracted
C10_Witness ==
    /\ xpc = "done"
    /\ Len(xin) = 3
    /\ IsMap(xin[2]) /\ IsErr(xin[3])
    /\ xf = MapFields(xin[2].v)
    /\ xargs = <<xin[1]>>


\* ---------------------------------------------- SpecOutput: output combinators
\* a child output: a testOutput with its preset err (nil unless fails)
Child(id, fails) == [id |-> id, fails |-> fails]
\* the nil Output
NilOutput == Child("nil", FALSE)
\* testOutput.Write: o.last = fields; return o.err
ChildErr(c) == IF c.fails THEN [kind |-> "error", v |-> c.id] ELSE NoErr
ChildCall(c, fields) == [child |-> c.id, fields |-> fields]

\* field values of the records handed to MultiOutput, LevelOutput, FilterOutput
LVal(x) == [t |-> "string", v |-> x]
LevelNames == {"debug", "info", "warn", "error", "fatal"}
\* what a record can carry under KeyLevel: a level name, another string, a
\* value that is no string
LevelValues ==
    {LVal(n) : n \in LevelNames} \cup {LVal("DEBUG"), LVal("5"), [t |-> "int", v |-> "1"]}
\* the records: with a level field, and without
LevelRecords ==
    {(KeyMessage :> LVal("m")) @@ (KeyLevel :> v) : v \in LevelValues}
        \cup {(KeyMessage :> LVal("m"))}

\* ---- MultiOutput
\* a MultiOutput that returns at the first child that fails
MultiWrite_StopAtError(m, fields) ==
    LET Failing == {i \in 1..Len(m) : m[i].fails}
        n == IF Failing = {} THEN Len(m)
             ELSE CHOOSE i \in Failing : \A j \in Failing : i <= j
    IN  [calls |-> [i \in 1..n |-> ChildCall(m[i], fields)],
         err |-> IF Failing = {} THEN NoErr ELSE ChildErr(m[n]),
         conds |-> 0, fields |-> fields]

\* MultiOutput.Write: for _, o := range m { e := o.Write(fields); if e != nil { err = e } }
MultiWrite(m, fields) ==
    LET RECURSIVE Loop(_, _, _)
        Loop(i, calls, err) ==
            IF i > Len(m) THEN [calls |-> calls, err |-> err]
            ELSE LET e == ChildErr(m[i])
                 IN  Loop(i + 1, Append(calls, ChildCall(m[i], fields)),
                          IF e # NoErr THEN e ELSE err)
        w == Loop(1, <<>>, NoErr)
    IN  [calls |-> w.calls, err |-> w.err, conds |-> 0, fields |-> fields]

\* the MultiOutput values: every list of up to MaxChildren children
MultiOutputs ==
    {[kind |-> "multi", m |-> [i \in 1..Len(fl) |-> Child(ToString(i), fl[i])]] :
        fl \in UNION {[1..k -> BOOLEAN] : k \in 0..MaxChildren}}

\* ---- LevelOutput
\* a LevelOutput with a default route: what no slot takes goes to Debug
LevelSlot_DefaultRoute(l, fields) ==
    IF KeyLevel \notin DOMAIN fields THEN l.Debug
    ELSE CASE fields[KeyLevel] = LVal("debug") -> l.Debug
           [] fields[KeyLevel] = LVal("info") -> l.Info
           [] fields[KeyLevel] = LVal("warn") -> l.Warn
           [] fields[KeyLevel] = LVal("error") -> l.Error
           [] fields[KeyLevel] = LVal("fatal") -> l.Fatal
           [] OTHER -> l.Debug

\* LevelOutput.Write: switch fields[KeyLevel]
LevelSlot(l, fields) ==
    IF KeyLevel \notin DOMAIN fields THEN NilOutput
    ELSE CASE fields[KeyLevel] = LVal("debug") -> l.Debug
           [] fields[KeyLevel] = LVal("info") -> l.Info
           [] fields[KeyLevel] = LVal("warn") -> l.Warn
           [] fields[KeyLevel] = LVal("error") -> l.Error
           [] fields[KeyLevel] = LVal("fatal") -> l.Fatal
           [] OTHER -> NilOutput

\* LevelOutput.Write: if o != nil { return o.Write(fields) }; return nil
LevelWrite(l, fields) ==
    LET o == LevelSlot(l, fields)
    IN  IF o # NilOutput
        THEN [calls |-> <<ChildCall(o, fields)>>, err |-> ChildErr(o),
              conds |-> 0, fields |-> fields]
        ELSE [calls |-> <<>>, err |-> NoErr, conds |-> 0, fields |-> fields]

\* what a slot of a LevelOutput holds: nil, a child, a child that fails
Slot(name) == {NilOutput, Child(name, FALSE), Child(name, TRUE)}
LevelOutputs ==
    {[kind |-> "level", Debug |-> d, Info |-> i, Warn |-> w, Error |-> e, Fatal |-> f] :
        d \in Slot("Debug"), i \in Slot("Info"), w \in Slot("Warn"),
        e \in Slot("Error"), f \in Slot("Fatal")}

\* ---- FilterOutput
\* a FilterOutput that evaluates Cond before it looks at its child
FilterWrite_CondFirst(f, fields) ==
    IF fields \in f.cond /\ f.output # NilOutput
    THEN [calls |-> <<ChildCall(f.output, fields)>>, err |-> ChildErr(f.output),
          conds |-> 1, fields |-> fields]
    ELSE [calls |-> <<>>, err |-> NoErr, conds |-> 1, fields |-> fields]

\* FilterOutput.Write; f.cond is the set of records for which f.Cond is true
FilterWrite(f, fields) ==
    IF f.output = NilOutput
    THEN [calls |-> <<>>, err |-> NoErr, conds |-> 0, fields |-> fields]
    ELSE IF fields \in f.cond
         THEN [calls |-> <<ChildCall(f.output, fields)>>, err |-> ChildErr(f.output),
               conds |-> 1, fields |-> fields]
         ELSE [calls |-> <<>>, err |-> NoErr, conds |-> 1, fields |-> fields]

\* the records handed to a FilterOutput, and the conditions over them
FilterRecords ==
    {(KeyMessage :> LVal("m")) @@ (KeyLevel :> LVal(n)) : n \in {"debug", "info"}}
FilterOutputs ==
    {[kind |-> "filter", cond |-> c, output |-> o] :
        c \in SUBSET FilterRecords, o \in Slot("o")}

\* ---- NewTrimOutput, NewTrimFieldsOutput
\* a string value as its bytes; "c3", "a9" is the two-byte encoding of one
\* character
TStr(b) == [t |-> "string", v |-> b]
TNum == [t |-> "int", v |-> <<"2", "0">>]
\* the characters of the strings: each one as its bytes
TrimChars == {<<"a">>, <<"c3", "a9">>}
RECURSIVE Flatten(_)
Flatten(cs) == IF cs = <<>> THEN <<>> ELSE Head(cs) \o Flatten(Tail(cs))
\* the strings of up to MaxStrLen bytes
TrimStrings ==
    {b \in {Flatten(cs) : cs \in UNION {[1..n -> TrimChars] : n \in 0..MaxStrLen}} :
        Len(b) <= MaxStrLen}
TrimValues == {TStr(b) : b \in TrimStrings} \cup {TNum}
TrimKeys == {"long", "short"}
TrimRecords == UNION {[K -> TrimValues] : K \in SUBSET TrimKeys}

\* a trim that keeps the end of the string
TrimValue_Tail(v, maxLen) ==
    IF v.t = "string" /\ Len(v.v) > maxLen
    THEN [v EXCEPT !.v = SubSeq(v.v, Len(v.v) - maxLen + 1, Len(v.v))]
    ELSE v

\* if s, ok := v.(string); ok && len(s) > maxLen { fields[k] = s[:maxLen] }
TrimValue(v, maxLen) ==
    IF v.t = "string" /\ Len(v.v) > maxLen
    THEN [v EXCEPT !.v = SubSeq(v.v, 1, maxLen)]
    ELSE v

\* NewTrimOutput(maxLen, o).Write
TrimWrite(w, fields) ==
    LET f2 == [k \in DOMAIN fields |-> TrimValue(fields[k], w.maxLen)]
    IN  [calls |-> <<ChildCall(w.output, f2)>>, err |-> ChildErr(w.output),
         conds |-> 0, fields |-> f2]

\* NewTrimFieldsOutput(trimFields, maxLen, o).Write; fields[f] of a missing
\* key is nil, which is no string
TrimFieldsWrite(w, fields) ==
    LET f2 == [k \in DOMAIN fields |->
                  IF k \in w.trimFields THEN TrimValue(fields[k], w.maxLen)
                  ELSE fields[k]]
    IN  [calls |-> <<ChildCall(w.output, f2)>>, err |-> ChildErr(w.output),
         conds |-> 0, fields |-> f2]

TrimOutputs ==
    {[kind |-> "trim", maxLen |-> n, output |-> Child("o", FALSE)] : n \in 0..MaxTrim}
TrimFieldsOutputs ==
    {[kind |-> "trimFields", trimFields |-> F, maxLen |-> n, output |-> Child("o", FALSE)] :
        F \in SUBSET (TrimKeys \cup {"other"}), n \in 0..MaxTrim}

\* ---- the specification
InitOutput ==
    /\ ChanIdle
    /\ LoggerIdle
    /\ ExtractIdle
    /\ StoreIdle
    /\ FieldsIdle
    /\ PoolIdle
    /\ FmtIdle
    /\ MoreIdle
    /\ out \in MultiOutputs \cup LevelOutputs \cup FilterOutputs
                 \cup TrimOutputs \cup TrimFieldsOutputs
    /\ ofields = EmptyMap
    /\ oorig = EmptyMap
    /\ ocalls = <<>>
    /\ oret = NoErr
    /\ oconds = 0
    /\ nwrites = 0

\* one Write on the output under test, with result w
Written(r, w) ==
    /\ nwrites < MaxWrites
    /\ nwrites' = nwrites + 1
    /\ oorig' = IF nwrites = 0 THEN r ELSE oorig
    /\ ofields' = w.fields
    /\ ocalls' = w.calls
    /\ oret' = w.err
    /\ oconds' = oconds + w.conds
    /\ UNCHANGED out
    /\ UNCHANGED <<oldVars, storeVars, fldVars, poolVars, fmtVars, moreVars>>

MultiOutputWrite(r) == out.kind = "multi" /\ Written(r, MultiWrite(out.m, r))
LevelOutputWrite(r) == out.kind = "level" /\ Written(r, LevelWrite(out, r))
FilterOutputWrite(r) == out.kind = "filter" /\ Written(r, FilterWrite(out, r))

\* the map a caller hands to a trim wrapper: a fresh one, then the same again
TrimInputs == IF nwrites = 0 THEN TrimRecords ELSE {ofields}

TrimOutputWrite ==
    out.kind = "trim" /\ \E r \in TrimInputs : Written(r, TrimWrite(out, r))
TrimFieldsOutputWrite ==
    out.kind = "trimFields" /\ \E r \in TrimInputs : Written(r, TrimFieldsWrite(out, r))

NextOutput ==
    \/ \E r \in LevelRecords : MultiOutputWrite(r)
    \/ \E r \in LevelRecords : LevelOutputWrite(r)
    \/ \E r \in FilterRecords : FilterOutputWrite(r)
    \/ TrimOutputWrite
    \/ TrimFieldsOutputWrite

SpecOutput == InitOutput /\ [][NextOutput]_vars


\* the failing children of a MultiOutput, by position
Failing == {i \in 1..Len(out.m) : out.m[i].fails}

\* C11: MultiOutput.Write calls every child's Write exactly once, in list
\* order, with the record, also after a child failed; it returns nil exactly
\* when no child failed, and otherwise the error of the last child that failed.
C11_MultiOutputLastError ==
    (out.kind = "multi" /\ nwrites > 0) =>
        /\ Len(ocalls) = Len(out.m)
        /\ \A i \in 1..Len(out.m) :
              ocalls[i] = [child |-> out.m[i].id, fields |-> ofields]
        /\ (oret = NoErr) <=> (Failing = {})
        /\ Failing # {} =>
              \E i \in Failing :
                  /\ \A j \in Failing : j <= i
                  /\ oret = [kind |-> "error", v |-> out.m[i].id]

\* C11 witness: the first child failed, the second was still written, and the
\* first child's error came back
C11_Witness ==
    /\ out.kind = "multi" /\ nwrites > 0
    /\ Len(out.m) = 2 /\ out.m[1].fails /\ ~out.m[2].fails
    /\ Len(ocalls) = 2 /\ ocalls[2].child = out.m[2].id
    /\ oret = [kind |-> "error", v |-> out.m[1].id]

\* the slot of the LevelOutput under test that a level name stands for
SlotNamed(n) ==
    CASE n = "debug" -> out.Debug
      [] n = "info" -> out.Info
      [] n = "warn" -> out.Warn
      [] n = "error" -> out.Error
      [] n = "fatal" -> out.Fatal

\* the record names a slot that is set
NamesSetSlot ==
    /\ KeyLevel \in DOMAIN ofields
    /\ ofields[KeyLevel].t = "string"
    /\ ofields[KeyLevel].v \in LevelNames
    /\ SlotNamed(ofields[KeyLevel].v) # NilOutput

\* C12: LevelOutput.Write writes the record to the slot its level field names,
\* when that slot is set, and returns that child's result; with no level
\* field, a level that is none of the five names, or a nil slot, it writes to
\* no child and returns nil.
C12_LevelOutputRoutes ==
    (out.kind = "level" /\ nwrites > 0) =>
        IF NamesSetSlot
        THEN /\ ocalls = <<[child |-> SlotNamed(ofields[KeyLevel].v).id,
                            fields |-> ofields]>>
             /\ oret = ChildErr(SlotNamed(ofields[KeyLevel].v))
        ELSE ocalls = <<>> /\ oret = NoErr

\* C12 witness: a warn record went to the Warn slot, whose error came back,
\* while the other slots are set too
C12_Witness ==
    /\ out.kind = "level" /\ nwrites > 0
    /\ KeyLevel \in DOMAIN ofields /\ ofields[KeyLevel] = LVal("warn")
    /\ out.Warn = Child("Warn", TRUE) /\ out.Debug = Child("Debug", FALSE)
    /\ ocalls = <<[child |-> "Warn", fields |-> ofields]>>
    /\ oret = [kind |-> "error", v |-> "Warn"]

\* a step in which Write was called on the output under test
WriteCall == nwrites' = nwrites + 1

\* C13: FilterOutput.Write forwards the record exactly when the child is not
\* nil and Cond is true of the record, and returns the child's result;
\* otherwise it writes nothing and returns nil; with a nil child Cond is not
\* evaluated.
C13_FilterOutputForwards ==
    [][(WriteCall /\ out.kind = "filter") =>
         /\ IF out.output # NilOutput /\ ofields' \in out.cond
            THEN /\ ocalls' = <<[child |-> out.output.id, fields |-> ofields']>>
                 /\ oret' = ChildErr(out.output)
            ELSE ocalls' = <<>> /\ oret' = NoErr
         /\ out.output = NilOutput => oconds' = oconds]_vars

\* C13 witness: a record was forwarded and the child's error came back, after
\* a record for which Cond is false was held back
C13_Witness ==
    /\ out.kind = "filter" /\ nwrites = 2
    /\ out.output = Child("o", TRUE)
    /\ oorig \notin out.cond /\ ofields \in out.cond
    /\ ocalls = <<[child |-> "o", fields |-> ofields]>>
    /\ oret = [kind |-> "error", v |-> "o"]
    /\ oconds = 2

\* the characters of a well-formed string, each as its bytes
RECURSIVE Runes(_)
Runes(b) ==
    IF b = <<>> THEN <<>>
    ELSE IF Head(b) = "c3"
         THEN <<SubSeq(b, 1, 2)>> \o Runes(SubSeq(b, 3, Len(b)))
         ELSE <<SubSeq(b, 1, 1)>> \o Runes(Tail(b))

\* field k is one the wrapper under test looks at
InScope(k) == out.kind = "trim" \/ k \in out.trimFields
Trimming == out.kind \in {"trim", "trimFields"} /\ nwrites > 0

\* C14 (as claimed): the child receives the record in which every string in
\* scope of more than maxLen characters is cut to its first maxLen characters
\* and every other field is as it was; a second Write changes nothing.
C14_TrimToCharacters ==
    Trimming =>
        /\ ocalls = <<[child |-> out.output.id, fields |-> ofields]>>
        /\ DOMAIN ofields = DOMAIN oorig
        /\ \A k \in DOMAIN oorig :
              IF /\ InScope(k)
                 /\ oorig[k].t = "string"
                 /\ Len(Runes(oorig[k].v)) > out.maxLen
              THEN ofields[k] =
                       TStr(Flatten(SubSeq(Runes(oorig[k].v), 1, out.maxLen)))
              ELSE ofields[k] = oorig[k]

\* C14 (amended): the child receives the record in which every string in scope
\* of more than maxLen bytes is cut to its first maxLen bytes, wherever that
\* falls in a character, and every other field (shorter strings, values that
\* are no strings, fields out of scope) is as it was; a second Write of the
\* same record changes nothing.
C14_TrimToBytes ==
    Trimming =>
        /\ ocalls = <<[child |-> out.output.id, fields |-> ofields]>>
        /\ DOMAIN ofields = DOMAIN oorig
        /\ \A k \in DOMAIN oorig :
              IF /\ InScope(k)
                 /\ oorig[k].t = "string"
                 /\ Len(oorig[k].v) > out.maxLen
              THEN /\ ofields[k].t = "string"
                   /\ Len(ofields[k].v) = out.maxLen
                   /\ IsPrefix(ofields[k].v, oorig[k].v)
              ELSE ofields[k] = oorig[k]

\* C14 witness: written twice, the listed field was cut inside its second
\* character and the same string in a field that is not listed was kept
C14_Witness ==
    /\ out.kind = "trimFields" /\ nwrites = 2
    /\ out.trimFields = {"long"} /\ out.maxLen = 2
    /\ DOMAIN oorig = TrimKeys
    /\ oorig["long"] = TStr(<<"a", "c3", "a9">>)
    /\ oorig["short"] = TStr(<<"a", "c3", "a9">>)
    /\ ofields["long"] = TStr(<<"a", "c3">>)
    /\ ofields["short"] = oorig["short"]


\* ------------------------------- SpecFields: loggers and their field maps
\* the store: the maps and logger instances allocated so far
Store == [maps |-> maps, lgs |-> lgs, panic |-> fpanic]
StoreNext == [maps |-> maps', lgs |-> lgs', panic |-> fpanic']
\* the entries of l.fields (ranging over a nil map finds none)
Contents(st, l) ==
    IF st.lgs[l].fields = Nil THEN EmptyMap ELSE st.maps[st.lgs[l].fields]

\* &logger{}
ZeroLogger ==
    [level |-> 0, output |-> "nil", fields |-> Nil, disablePooling |-> FALSE]

\* logger.SetField: if l.fields == nil { l.fields = map...{} }; l.fields[name] = value
DoSetField(st, l, name, value) ==
    LET ms == IF st.lgs[l].fields = Nil THEN Append(st.maps, EmptyMap) ELSE st.maps
        ref == IF st.lgs[l].fields = Nil THEN Len(ms) ELSE st.lgs[l].fields
    IN  [st EXCEPT !.maps = [ms EXCEPT ![ref] = Merge(@, (name :> value))],
                   !.lgs[l].fields = ref]

\* for k, v := range m { l.SetField(k, v) }
RECURSIVE DoSetAll(_, _, _)
DoSetAll(st, l, m) ==
    IF DOMAIN m = {} THEN st
    ELSE LET k == CHOOSE k \in DOMAIN m : TRUE
         IN  DoSetAll(DoSetField(st, l, k, m[k]), l, [j \in DOMAIN m \ {k} |-> m[j]])

\* logger.SetFields: for name, value := range fields { l.fields[name] = value };
\* an assignment to an entry of a nil map panics
DoSetFields(st, l, m) ==
    IF DOMAIN m = {} THEN st
    ELSE IF st.lgs[l].fields = Nil THEN [st EXCEPT !.panic = TRUE]
         ELSE [st EXCEPT !.maps[st.lgs[l].fields] = Merge(@, m)]

\* New(c) on instance p of the pool, or on a new instance when p = 0
DoNew(st, p, c) ==
    LET ls0 == IF p = 0 THEN Append(st.lgs, ZeroLogger) ELSE st.lgs
        l == IF p = 0 THEN Len(ls0) ELSE p
        ls1 == [ls0 EXCEPT ![l].level = c.Level,
                           ![l].output = IF c.Output = "nil" THEN "console" ELSE c.Output]
        st2 == DoSetAll([st EXCEPT !.lgs = ls1], l,
                        IF c.Fields = Nil THEN EmptyMap ELSE st.maps[c.Fields])
    IN  [st |-> [st2 EXCEPT !.lgs[l].disablePooling = c.DisablePooling], l |-> l]

\* a Copy that hands its own map to the copy
DoCopy_Shared(st, l) ==
    [st EXCEPT !.lgs = Append(st.lgs, st.lgs[l])]

\* logger.Copy
DoCopy(st, l) ==
    LET ms == Append(st.maps, Contents(st, l))
    IN  [st EXCEPT !.maps = ms,
                   !.lgs = Append(st.lgs, [st.lgs[l] EXCEPT !.fields = Len(ms)])]

\* what Config.Fields is: nil, an empty map, a map
ConfigFields == {NilFields, MapFields(EmptyMap), MapFields(("a" :> 1))}
\* the arguments of SetFields
FieldMaps == {EmptyMap, ("a" :> 2), ("a" :> 2) @@ ("b" :> 2)}

\* c := Config{...}; l := New(c)
InitFields ==
    /\ ChanIdle
    /\ LoggerIdle
    /\ ExtractIdle
    /\ OutputIdle
    /\ PoolIdle
    /\ FmtIdle
    /\ MoreIdle
    /\ \E cf \in ConfigFields, lv \in {LevelDebug, LevelWarn}, dp \in BOOLEAN :
          LET c == [Level |-> lv, Output |-> "recorder",
                    Fields |-> IF cf.nil THEN Nil ELSE 1, DisablePooling |-> dp]
              st0 == [maps |-> IF cf.nil THEN <<>> ELSE <<cf.kv>>, lgs |-> <<>>,
                      panic |-> FALSE]
              n == DoNew(st0, 0, c)
          IN  /\ cfg = c
              /\ maps = n.st.maps
              /\ lgs = n.st.lgs
              /\ fpanic = n.st.panic
    /\ got = NoRef
    /\ nops = 0
    /\ lastOp = [op |-> "New", l |-> 1, m |-> EmptyMap]

\* one call on logger l (0: on a map the caller holds), leaving the store st
Called(o, l, m, st) ==
    /\ ~fpanic
    /\ nops < MaxOps
    /\ nops' = nops + 1
    /\ lastOp' = [op |-> o, l |-> l, m |-> m]
    /\ maps' = st.maps
    /\ lgs' = st.lgs
    /\ fpanic' = st.panic
    /\ UNCHANGED cfg
    /\ UNCHANGED <<oldVars, outVars, poolVars, fmtVars, moreVars>>

\* l2 := l.Copy()
FCopy(l) == Called("Copy", l, EmptyMap, DoCopy(Store, l)) /\ UNCHANGED got

\* l.SetField(name, value)
FSetField(l, name, value) ==
    Called("SetField", l, (name :> value), DoSetField(Store, l, name, value))
        /\ UNCHANGED got

\* l.SetFields(m)
FSetFields(l, m) ==
    Called("SetFields", l, m, DoSetFields(Store, l, m)) /\ UNCHANGED got

\* f := l.GetFields(): return l.fields
FGetFields(l) ==
    Called("GetFields", l, EmptyMap, Store) /\ got' = lgs[l].fields

\* f[name] = value, on the map GetFields returned
WriteGot(name, value) ==
    /\ got > Nil
    /\ Called("WriteGot", 0, (name :> value),
              [Store EXCEPT !.maps[got] = Merge(@, (name :> value))])
    /\ UNCHANGED got

\* c.Fields[name] = value, on the map the logger was built from
WriteConfig(name, value) ==
    /\ cfg.Fields > Nil
    /\ Called("WriteConfig", 0, (name :> value),
              [Store EXCEPT !.maps[cfg.Fields] = Merge(@, (name :> value))])
    /\ UNCHANGED got

NextFields ==
    \/ \E l \in 1..Len(lgs) : FCopy(l)
    \/ \E l \in 1..Len(lgs), name \in FieldKeys : FSetField(l, name, 2)
    \/ \E l \in 1..Len(lgs), m \in FieldMaps : FSetFields(l, m)
    \/ \E l \in 1..Len(lgs) : FGetFields(l)
    \/ \E name \in FieldKeys : WriteGot(name, 3)
    \/ \E name \in FieldKeys : WriteConfig(name, 4)

SpecFields == InitFields /\ [][NextFields]_vars

\* a step in which the call o was made
Did(o) == nops' = nops + 1 /\ lastOp'.op = o
\* the loggers other than the one the latest call was made on
Others == (1..Len(lgs)) \ {lastOp'.l}

\* C15: the copy Copy returns has the level, the output and the field contents
\* of the original and a map of its own; SetField on one logger leaves the
\* fields of every other logger as they were; a change to c.Fields after
\* New(c) leaves the fields of every logger as they were.
C15_FieldsNotShared ==
    [][/\ Did("Copy") =>
            LET n == Len(lgs')
            IN  /\ n = Len(lgs) + 1
                /\ lgs'[n].level = lgs[lastOp'.l].level
                /\ lgs'[n].output = lgs[lastOp'.l].output
                /\ Contents(StoreNext, n) = Contents(Store, lastOp'.l)
                /\ \A i \in 1..Len(lgs) :
                      /\ lgs'[i] = lgs[i]
                      /\ Contents(StoreNext, i) = Contents(Store, i)
                      /\ lgs'[n].fields # lgs'[i].fields
       /\ Did("SetField") =>
            /\ Contents(StoreNext, lastOp'.l) = Merge(Contents(Store, lastOp'.l), lastOp'.m)
            /\ \A i \in Others : Contents(StoreNext, i) = Contents(Store, i)
       /\ Did("WriteConfig") =>
            \A i \in 1..Len(lgs) : Contents(StoreNext, i) = Contents(Store, i)]_vars

\* C15 witness: after New(c) with c.Fields = {a: 1}, a Copy and a SetField of
\* a on the copy, the original still has a = 1 and the copy has a = 2
C15_Witness ==
    /\ Len(lgs) = 2
    /\ lastOp.op = "SetField" /\ lastOp.l = 2
    /\ Contents(Store, 1) = ("a" :> 1)
    /\ Contents(Store, 2) = ("a" :> 2)
    /\ maps[cfg.Fields] = ("a" :> 1)

\* C16: a change made to the mapping GetFields returned leaves the fields of
\* every logger as they were, and a SetField leaves a mapping returned earlier
\* as it was.
C16_GetFieldsSnapshot ==
    [][/\ Did("WriteGot") =>
            \A i \in 1..Len(lgs) : Contents(StoreNext, i) = Contents(Store, i)
       /\ (Did("SetField") /\ got > Nil) => maps'[got] = maps[got]]_vars

\* C17: SetFields(m) never panics and leaves every logger with the fields
\* that a SetField for each entry of m leaves it with.
C17_SetFieldsAsSetField ==
    [][Did("SetFields") =>
            /\ ~fpanic'
            /\ \A i \in 1..Len(lgs) :
                  Contents(StoreNext, i) =
                      Contents(DoSetAll(Store, lastOp'.l, lastOp'.m), i)]_vars


\* ------------------------------------ SpecPool: NewHandler and loggerPool
\* a close that leaves the fields of the logger in place
DoClose_KeepFields(st, l) ==
    IF st.lgs[l].disablePooling THEN st
    ELSE [st EXCEPT !.lgs[l].level = 0, !.lgs[l].output = "nil"]

\* a close that leaves the output of the logger in place
DoClose_KeepOutput(st, l) ==
    IF st.lgs[l].disablePooling THEN st
    ELSE [st EXCEPT !.lgs[l].level = 0, !.lgs[l].fields = Nil]

\* logger.close: if !l.disablePooling { l.level = 0; l.output = nil; l.fields = nil }
DoClose(st, l) ==
    IF st.lgs[l].disablePooling THEN st
    ELSE [st EXCEPT !.lgs[l].level = 0, !.lgs[l].output = "nil",
                    !.lgs[l].fields = Nil]

\* l.fields as logger.send reads it
FieldsOf(l) ==
    IF lgs[l].fields = Nil THEN NilFields ELSE MapFields(maps[lgs[l].fields])

\* NewHandler(c), with pooling enabled
InitPool ==
    /\ ChanIdle
    /\ LoggerIdle
    /\ ExtractIdle
    /\ OutputIdle
    /\ PoolIdle
    /\ FmtIdle
    /\ MoreIdle
    /\ \E cf \in {NilFields, MapFields(("a" :> 1))}, lv \in {LevelDebug, LevelWarn} :
          /\ cfg = [Level |-> lv, Output |-> "recorder",
                    Fields |-> IF cf.nil THEN Nil ELSE 1, DisablePooling |-> FALSE]
          /\ maps = IF cf.nil THEN <<>> ELSE <<cf.kv>>
    /\ lgs = <<>>
    /\ fpanic = FALSE
    /\ got = NoRef
    /\ nops = 0
    /\ lastOp = [op |-> "none"]

\* l := New(c); ctx = NewContext(ctx, l): loggerPool.Get() hands out instance
\* p of the pool, or a new instance (p = 0)
HandlerNew(h, p) ==
    /\ rq[h].pc = "idle"
    /\ nreq < MaxRequests
    /\ LET n == DoNew(Store, p, cfg)
       IN  /\ maps' = n.st.maps
           /\ lgs' = n.st.lgs
           /\ rq' = [rq EXCEPT ![h] = [pc |-> "serving", req |-> nreq + 1, l |-> n.l]]
    /\ pool' = pool \ {p}
    /\ nreq' = nreq + 1
    /\ UNCHANGED <<fpanic, precs>>
    /\ UNCHANGED <<oldVars, outVars, fldVars, fmtVars, moreVars>>

\* next.ServeHTTPC, a handler that sets a field before it logs:
\* FromContext(ctx).SetField("req", <the request>)
HandlerSetField(h) ==
    /\ rq[h].pc = "serving"
    /\ LET st == DoSetField(Store, rq[h].l, "req", rq[h].req)
       IN  maps' = st.maps /\ lgs' = st.lgs
    /\ rq' = [rq EXCEPT ![h].pc = "set"]
    /\ UNCHANGED <<fpanic, pool, precs, nreq>>
    /\ UNCHANGED <<oldVars, outVars, fldVars, fmtVars, moreVars>>

\* next.ServeHTTPC: FromContext(ctx).Info("msg")
HandlerLog(h) ==
    /\ rq[h].pc \in {"serving", "set"}
    /\ precs' = IF Gated(LevelInfo, lgs[rq[h].l].level, lgs[rq[h].l].output # "nil")
                THEN precs
                ELSE precs \cup
                         {[req |-> rq[h].req, l |-> rq[h].l,
                           fields |-> SendData(LevelInfo, "msg", EmptyMap,
                                               FieldsOf(rq[h].l))]}
    /\ rq' = [rq EXCEPT ![h].pc = "logged"]
    /\ UNCHANGED <<storeVars, pool, nreq>>
    /\ UNCHANGED <<oldVars, outVars, fldVars, fmtVars, moreVars>>

\* the request ends: l.close(), which resets the logger and puts it in the pool
HandlerClose(h) ==
    /\ rq[h].pc \in {"serving", "set", "logged"}
    /\ LET st == DoClose(Store, rq[h].l)
       IN  maps' = st.maps /\ lgs' = st.lgs
    /\ pool' = IF lgs[rq[h].l].disablePooling THEN pool ELSE pool \cup {rq[h].l}
    /\ rq' = [rq EXCEPT ![h].pc = "idle"]
    /\ UNCHANGED <<fpanic, precs, nreq>>
    /\ UNCHANGED <<oldVars, outVars, fldVars, fmtVars, moreVars>>

NextPool ==
    \/ \E h \in Reqs : \E p \in pool \cup {0} : HandlerNew(h, p)
    \/ \E h \in Reqs : HandlerSetField(h)
    \/ \E h \in Reqs : HandlerLog(h)
    \/ \E h \in Reqs : HandlerClose(h)

SpecPool == InitPool /\ [][NextPool]_vars

\* the handlers with a request in flight
Serving == {h \in Reqs : rq[h].pc # "idle"}

\* C18: two requests in flight never hold the same logger instance, a logger
\* held by a request is not in the pool, and a record carries the field "req"
\* only with the value that the request that logged it has set.
C18_PooledLoggersNotShared ==
    /\ \A h1, h2 \in Serving : h1 # h2 => rq[h1].l # rq[h2].l
    /\ \A h \in Serving : rq[h].l \notin pool
    /\ \A r \in precs : "req" \in DOMAIN r.fields => r.fields["req"] = r.req

\* C18 witness: one logger instance served two requests; the first set its
\* field and logged it, the second logged without it
C18_Witness ==
    \E r1, r2 \in precs :
        /\ r1.req < r2.req
        /\ r1.l = r2.l
        /\ "req" \in DOMAIN r1.fields
        /\ "req" \notin DOMAIN r2.fields


\* ------------------------- SpecLevel: Level.String and LevelFromString
\* strings as their bytes
levelBytesDebug == <<"d", "e", "b", "u", "g">>
levelBytesInfo == <<"i", "n", "f", "o">>
levelBytesWarn == <<"w", "a", "r", "n">>
levelBytesError == <<"e", "r", "r", "o", "r">>
levelBytesFatal == <<"f", "a", "t", "a", "l">>

DecimalDigits == <<"0", "1", "2", "3", "4", "5", "6", "7", "8", "9">>
\* strconv.FormatInt(n, 10)
RECURSIVE FormatNat(_)
FormatNat(n) ==
    IF n < 10 THEN <<DecimalDigits[n + 1]>>
    ELSE FormatNat(n \div 10) \o <<DecimalDigits[(n % 10) + 1]>>
FormatInt(n) == IF n < 0 THEN <<"-">> \o FormatNat(0 - n) ELSE FormatNat(n)

\* Level.String, as the bytes of the string it returns
LevelStringBytes(l) ==
    CASE l = LevelDebug -> levelBytesDebug
      [] l = LevelInfo -> levelBytesInfo
      [] l = LevelWarn -> levelBytesWarn
      [] l = LevelError -> levelBytesError
      [] l = LevelFatal -> levelBytesFatal
      [] OTHER -> FormatInt(l)

LowerLetters ==
    <<"a", "b", "c", "d", "e", "f", "g", "h", "i", "j", "k", "l", "m",
      "n", "o", "p", "q", "r", "s", "t", "u", "v", "w", "x", "y", "z">>
UpperLetters ==
    <<"A", "B", "C", "D", "E", "F", "G", "H", "I", "J", "K", "L", "M",
      "N", "O", "P", "Q", "R", "S", "T", "U", "V", "W", "X", "Y", "Z">>
\* strings.ToUpper and strings.ToLower
ToUpper(b) ==
    [i \in 1..Len(b) |->
        IF \E j \in 1..26 : LowerLetters[j] = b[i]
        THEN UpperLetters[CHOOSE j \in 1..26 : LowerLetters[j] = b[i]]
        ELSE b[i]]
ToLower(b) ==
    [i \in 1..Len(b) |->
        IF \E j \in 1..26 : UpperLetters[j] = b[i]
        THEN LowerLetters[CHOOSE j \in 1..26 : UpperLetters[j] = b[i]]
        ELSE b[i]]

UnknownLevel == [kind |-> "error", v |-> "Uknown level"]

\* an UnmarshalText that ignores the case of the name
UnmarshalText_AnyCase(l, text) ==
    CASE ToLower(text) = levelBytesDebug -> [l |-> LevelDebug, err |-> NoErr]
      [] ToLower(text) = levelBytesInfo -> [l |-> LevelInfo, err |-> NoErr]
      [] ToLower(text) = levelBytesWarn -> [l |-> LevelWarn, err |-> NoErr]
      [] ToLower(text) = levelBytesError -> [l |-> LevelError, err |-> NoErr]
      [] ToLower(text) = levelBytesFatal -> [l |-> LevelFatal, err |-> NoErr]
      [] OTHER -> [l |-> l, err |-> UnknownLevel]

\* Level.UnmarshalText on a Level that holds l
UnmarshalText(l, text) ==
    CASE text = levelBytesDebug -> [l |-> LevelDebug, err |-> NoErr]
      [] text = levelBytesInfo -> [l |-> LevelInfo, err |-> NoErr]
      [] text = levelBytesWarn -> [l |-> LevelWarn, err |-> NoErr]
      [] text = levelBytesError -> [l |-> LevelError, err |-> NoErr]
      [] text = levelBytesFatal -> [l |-> LevelFatal, err |-> NoErr]
      [] OTHER -> [l |-> l, err |-> UnknownLevel]

\* LevelFromString: l := Level(0); err := (&l).UnmarshalText([]byte(t)); return l, err
LevelFromString(t) == UnmarshalText(0, t)

\* the Level values: the five defined ones, their neighbours, a large one
LevelInputs == (-1..MaxLevel) \cup {1000}
\* what a name can be mistaken for: the name in upper case, with its first
\* letter in upper case, cut short, with a byte before or after it
Variants(b) ==
    {b, ToUpper(b), b \o <<" ">>, <<" ">> \o b, b \o <<"s">>}
        \cup {SubSeq(b, 1, n) : n \in 0..Len(b)}
        \cup {ToUpper(SubSeq(b, 1, 1)) \o SubSeq(b, 2, Len(b))}
\* the strings handed to LevelFromString
NameInputs ==
    UNION {Variants(LevelStringBytes(l)) : l \in LevelInputs}
        \cup {<<"w", "a", "r", "n", "i", "n", "g">>, <<"t", "r", "a", "c", "e">>}

InitLevel ==
    /\ ChanIdle
    /\ LoggerIdle
    /\ ExtractIdle
    /\ OutputIdle
    /\ StoreIdle
    /\ FieldsIdle
    /\ PoolIdle
    /\ ConsoleIdle
    /\ MoreIdle
    /\ lvIn \in LevelInputs
    /\ nameIn \in NameInputs
    /\ strOut = <<>>
    /\ lvOut = [l |-> 0, err |-> NoErr]
    /\ lvpc = "call"

\* l, err := LevelFromString(nameIn)
LevelFromStringCall ==
    /\ lvpc = "call"
    /\ lvOut' = LevelFromString(nameIn)
    /\ lvpc' = "parsed"
    /\ UNCHANGED <<lvIn, nameIn, strOut>>
    /\ UNCHANGED <<oldVars, outVars, storeVars, fldVars, poolVars, conVars, moreVars>>

\* l, err := LevelFromString(lvIn.String())
RoundTripCall ==
    /\ lvpc = "call"
    /\ strOut' = LevelStringBytes(lvIn)
    /\ lvOut' = LevelFromString(LevelStringBytes(lvIn))
    /\ lvpc' = "roundtrip"
    /\ UNCHANGED <<lvIn, nameIn>>
    /\ UNCHANGED <<oldVars, outVars, storeVars, fldVars, poolVars, conVars, moreVars>>

NextLevel == LevelFromStringCall \/ RoundTripCall

SpecLevel == InitLevel /\ [][NextLevel]_vars

\* the five canonical lowercase names, with their levels
CanonicalNames ==
    {<<<<"d", "e", "b", "u", "g">>, 0>>, <<<<"i", "n", "f", "o">>, 1>>,
     <<<<"w", "a", "r", "n">>, 2>>, <<<<"e", "r", "r", "o", "r">>, 3>>,
     <<<<"f", "a", "t", "a", "l">>, 4>>}

\* C20: LevelFromString(s) returns level L and no error exactly when s is the
\* canonical lowercase name of L, one of the five defined levels; for every
\* other string it returns an error; the name String gives a defined level
\* parses back to that level, and the one it gives any other level does not
\* parse.
C20_LevelFromStringExact ==
    /\ lvpc = "parsed" =>
          /\ (lvOut.err = NoErr) <=> (\E c \in CanonicalNames : c[1] = nameIn)
          /\ lvOut.err = NoErr => <<nameIn, lvOut.l>> \in CanonicalNames
    /\ lvpc = "roundtrip" =>
          IF lvIn \in Levels
          THEN /\ <<strOut, lvIn>> \in CanonicalNames
               /\ lvOut = [l |-> lvIn, err |-> NoErr]
          ELSE /\ \A c \in CanonicalNames : c[1] # strOut
               /\ lvOut.err # NoErr

\* C20 witness: "WARN" was refused
C20_Witness ==
    /\ lvpc = "parsed"
    /\ nameIn = <<"W", "A", "R", "N">>
    /\ lvOut.err = UnknownLevel

\* -------------------------------------- SpecConsole: consoleOutput.Write
\* the values a record carries under KeyLevel: strings, and a value that is
\* no string
ConsoleLevels == {TStr(b) : b \in NameInputs} \cup {TNum}
\* the records: with or without a level, with or without a message
ConsoleRecords ==
    {lv @@ msg : lv \in {EmptyMap} \cup {(KeyLevel :> v) : v \in ConsoleLevels},
                 msg \in {EmptyMap, (KeyMessage :> TStr(<<"m">>))}}

\* consoleOutput.Write: lvl[0:4] panics on a string of fewer than four bytes;
\* the buffer takes every write, so the only error is the one of o.w.Write
ConsoleWrite(fields, werr) ==
    IF KeyLevel \in DOMAIN fields /\ fields[KeyLevel].t = "string"
    THEN IF Len(fields[KeyLevel].v) < 4
         THEN [panic |-> TRUE, err |-> NoErr, tag |-> <<>>]
         ELSE [panic |-> FALSE, err |-> werr,
               tag |-> ToUpper(SubSeq(fields[KeyLevel].v, 1, 4))]
    ELSE [panic |-> FALSE, err |-> werr, tag |-> <<>>]

InitConsole ==
    /\ ChanIdle
    /\ LoggerIdle
    /\ ExtractIdle
    /\ OutputIdle
    /\ StoreIdle
    /\ FieldsIdle
    /\ PoolIdle
    /\ LevelIdle
    /\ MoreIdle
    /\ crec \in ConsoleRecords
    /\ cwerr \in {NoErr, [kind |-> "error", v |-> "w"]}
    /\ cres = [panic |-> FALSE, err |-> NoErr, tag |-> <<>>]
    /\ conpc = "call"

\* err := o.Write(crec)
ConsoleWriteCall ==
    /\ conpc = "call"
    /\ cres' = ConsoleWrite(crec, cwerr)
    /\ conpc' = "done"
    /\ UNCHANGED <<crec, cwerr>>
    /\ UNCHANGED <<oldVars, outVars, storeVars, fldVars, poolVars, levelVars, moreVars>>

NextConsole == ConsoleWriteCall

SpecConsole == InitConsole /\ [][NextConsole]_vars

\* C19: consoleOutput.Write returns, with nil or an error, for every record.
C19_ConsoleNeverPanics == conpc = "done" => ~cres.panic

\* ------------------------------------- SpecLogstash: logstashOutput.Write
\* a time.Time: midnight UTC of the first of January of the year 200d
TTime(d) == [t |-> "time", v |-> <<d>>]
\* an int64, by its decimal digits
TInt64(n) == [t |-> "int64", v |-> FormatInt(n)]
\* t.Format(time.RFC3339)
FormatRFC3339(tv) ==
    TStr(<<"2", "0", "0", tv.v[1], "-", "0", "1", "-", "0", "1", "T",
           "0", "0", ":", "0", "0", ":", "0", "0", "Z">>)

\* strings.IndexByte(s, c), counted from 1; 0 when c is not in s
IndexByte(s, c) ==
    IF \E i \in 1..Len(s) : s[i] = c
    THEN CHOOSE i \in 1..Len(s) : s[i] = c /\ \A j \in 1..(i - 1) : s[j] # c
    ELSE 0

IsDigit(d) == \E i \in 1..10 : DecimalDigits[i] = d
DigitValue(d) == (CHOOSE i \in 1..10 : DecimalDigits[i] = d) - 1
RECURSIVE ParseNat(_)
ParseNat(s) ==
    IF s = <<>> THEN 0
    ELSE 10 * ParseNat(SubSeq(s, 1, Len(s) - 1)) + DigitValue(s[Len(s)])
\* strconv.ParseInt(s, 10, 32): an optional sign, then decimal digits only,
\* and a value that fits 32 bits
ParseInt(s) ==
    LET signed == s # <<>> /\ s[1] \in {"+", "-"}
        digits == IF signed THEN Tail(s) ELSE s
        syntax == digits # <<>> /\ \A i \in 1..Len(digits) : IsDigit(digits[i])
        n == IF signed /\ s[1] = "-" THEN 0 - ParseNat(digits) ELSE ParseNat(digits)
    IN  IF syntax /\ n >= 0 - 2147483647 - 1 /\ n <= 2147483647
        THEN [n |-> n, ok |-> TRUE]
        ELSE [n |-> 0, ok |-> FALSE]

\* m[k] = v
MapSet(m, k, v) == [x \in DOMAIN m \cup {k} |-> IF x = k THEN v ELSE m[x]]

\* the file value splits: a string with a ':' whose rest parses as a line
FileSplits(v) ==
    /\ v.t = "string"
    /\ IndexByte(v.v, ":") # 0
    /\ ParseInt(SubSeq(v.v, IndexByte(v.v, ":") + 1, Len(v.v))).ok
FileName(v) == SubSeq(v.v, 1, IndexByte(v.v, ":") - 1)
FileLine(v) == ParseInt(SubSeq(v.v, IndexByte(v.v, ":") + 1, Len(v.v))).n

\* the key an entry is stored under
LogstashKey(k) == IF k = KeyTime THEN "@timestamp" ELSE k

\* one turn of the range loop of logstashOutput.Write
LogstashEntry(lsf, k, v) ==
    LET split == k = KeyFile /\ FileSplits(v)
        lsf1 == IF split THEN MapSet(lsf, "line_number", TInt64(FileLine(v)))
                ELSE lsf
        v1 == IF k = KeyLevel /\ v.t = "string" THEN TStr(ToUpper(v.v))
              ELSE IF split THEN TStr(FileName(v))
              ELSE v
        v2 == IF v1.t = "time" THEN FormatRFC3339(v1) ELSE v1
    IN  MapSet(lsf1, LogstashKey(k), v2)

\* the range loop, visiting the keys in the order ord
RECURSIVE LogstashLoop(_, _, _)
LogstashLoop(lsf, fields, ord) ==
    IF ord = <<>> THEN lsf
    ELSE LogstashLoop(LogstashEntry(lsf, Head(ord), fields[Head(ord)]),
                      fields, Tail(ord))

\* logstashOutput.Write: json.Marshal takes every value of the records below,
\* so the only error is the one of o.w.Write
LogstashWrite(fields, ord, werr) ==
    [lsf |-> LogstashLoop(("@version" :> TInt64(1)), fields, ord), err |-> werr]

\* the values of the reserved fields, as send makes them and otherwise
LogstashTimes == {TTime("1"), TStr(<<"n", "o", "w">>)}
LogstashLevels ==
    {TStr(levelBytesInfo), TStr(<<"W", "a", "r", "n">>), TInt64(3)}
LogstashFiles ==
    {TStr(b) : b \in {<<"a", ".", "g", "o", ":", "1", "2">>,
                      <<"a", ".", "g", "o", ":", "0", "7">>,
                      <<"a", ".", "g", "o", ":", "-", "3">>,
                      <<"a", ".", "g", "o">>,
                      <<"a", ".", "g", "o", ":">>,
                      <<"a", ".", "g", "o", ":", "x">>,
                      <<"c", ":", "a", ":", "5">>,
                      <<":", "9">>}}
        \cup {TInt64(12)}
\* the fields a caller adds: its own, and ones named as the keys Write makes
LogstashExtras ==
    {EmptyMap, ("foo" :> TStr(<<"b", "a", "r">>)), ("start" :> TTime("2")),
     ("@version" :> TStr(<<"2">>)), ("@timestamp" :> TStr(<<"t">>)),
     ("line_number" :> TStr(<<"n">>))}
LogstashRecords ==
    {tm @@ lv @@ fl @@ ex :
        tm \in {EmptyMap} \cup {(KeyTime :> v) : v \in LogstashTimes},
        lv \in {EmptyMap} \cup {(KeyLevel :> v) : v \in LogstashLevels},
        fl \in {EmptyMap} \cup {(KeyFile :> v) : v \in LogstashFiles},
        ex \in LogstashExtras}

\* the orders in which range can visit the keys of a map
Orders(S) ==
    {o \in [1..Cardinality(S) -> S] : \A i, j \in 1..Cardinality(S) : o[i] = o[j] => i = j}

InitLogstash ==
    /\ ChanIdle
    /\ LoggerIdle
    /\ ExtractIdle
    /\ OutputIdle
    /\ StoreIdle
    /\ FieldsIdle
    /\ PoolIdle
    /\ FmtIdle
    /\ HandlerIdle
    /\ lsrec \in LogstashRecords
    /\ lswerr \in {NoErr, [kind |-> "error", v |-> "w"]}
    /\ lsord = <<>>
    /\ lsres = [lsf |-> EmptyMap, err |-> NoErr]
    /\ lspc = "call"

\* err := o.Write(lsrec)
LogstashWriteCall ==
    /\ lspc = "call"
    /\ \E ord \in Orders(DOMAIN lsrec) :
          /\ lsord' = ord
          /\ lsres' = LogstashWrite(lsrec, ord, lswerr)
    /\ lspc' = "done"
    /\ UNCHANGED <<lsrec, lswerr>>
    /\ UNCHANGED <<oldVars, outVars, storeVars, fldVars, poolVars, fmtVars, hdVars>>

NextLogstash == LogstashWriteCall

SpecLogstash == InitLogstash /\ [][NextLogstash]_vars

\* the keys of a record that Write handles by name
LogstashOwn == {KeyTime, KeyLevel, KeyFile}

\* C21: the object logstashOutput.Write marshals has @version = 1, the
\* record's time under @timestamp, the level uppercased, a file of the form
\* name:line as file = name and line_number = line, and every other field
\* under its own key.
C21_LogstashObject ==
    lspc = "done" =>
        /\ "@version" \in DOMAIN lsres.lsf
        /\ lsres.lsf["@version"] = TInt64(1)
        /\ KeyTime \in DOMAIN lsrec =>
              /\ "@timestamp" \in DOMAIN lsres.lsf
              /\ lsres.lsf["@timestamp"] =
                    IF lsrec[KeyTime].t = "time"
                    THEN FormatRFC3339(lsrec[KeyTime]) ELSE lsrec[KeyTime]
        /\ KeyLevel \in DOMAIN lsrec /\ lsrec[KeyLevel].t = "string" =>
              /\ KeyLevel \in DOMAIN lsres.lsf
              /\ lsres.lsf[KeyLevel] = TStr(ToUpper(lsrec[KeyLevel].v))
        /\ KeyFile \in DOMAIN lsrec /\ FileSplits(lsrec[KeyFile]) =>
              /\ {"file", "line_number"} \subseteq DOMAIN lsres.lsf
              /\ lsres.lsf["file"] = TStr(FileName(lsrec[KeyFile]))
              /\ lsres.lsf["line_number"] = TInt64(FileLine(lsrec[KeyFile]))
        /\ \A k \in DOMAIN lsrec \ LogstashOwn :
              /\ k \in DOMAIN lsres.lsf
              /\ lsres.lsf[k] =
                    IF lsrec[k].t = "time" THEN FormatRFC3339(lsrec[k]) ELSE lsrec[k]

\* ------------------------- SpecHandler: Handler.Start, Stop and SetOutput
MaxHCalls == 3
MaxHRecords == 2
HOutputs == {"o1", "o2"}

\* no call has panicked (an unrecovered panic ends the process)
HAlive == \A t \in Threads : hpc[t] # "panic"

\* NewHandler: the fields are set and h.Start() has run
InitHandler ==
    /\ ChanIdle
    /\ LoggerIdle
    /\ ExtractIdle
    /\ OutputIdle
    /\ StoreIdle
    /\ FieldsIdle
    /\ PoolIdle
    /\ FmtIdle
    /\ LogstashIdle
    /\ hmu = "free"
    /\ hstop = 1
    /\ hclosed = {}
    /\ hvals = {1}
    /\ hinput = <<>>
    /\ houtput = "o1"
    /\ hsink = <<>>
    /\ hgs = <<[pc |-> "loop", c |-> 0, msg |-> 0]>>
    /\ hpc = [t \in Threads |-> "idle"]
    /\ hret = [t \in Threads |-> "none"]
    /\ hstopped = FALSE
    /\ hlate = {}
    /\ hncalls = 0
    /\ hnrecs = 0

HFrame == UNCHANGED <<oldVars, outVars, storeVars, fldVars, poolVars, fmtVars, lsVars>>

\* a caller enters Start, Stop or SetOutput and reaches h.mu.Lock()
HandlerCall(t, o) ==
    /\ HAlive
    /\ hpc[t] = "idle"
    /\ hncalls < MaxHCalls
    /\ hpc' = [hpc EXCEPT ![t] = o]
    /\ hncalls' = hncalls + 1
    /\ hstopped' = IF o = "start" THEN FALSE ELSE hstopped
    /\ hlate' = IF o = "start" THEN {} ELSE hlate
    /\ UNCHANGED <<hmu, hstop, hclosed, hvals, hinput, houtput, hsink, hgs,
                   hret, hnrecs>>
    /\ HFrame

\* Start, from h.mu.Lock(): on a started handler it returns with h.mu locked
StartLock(t) ==
    /\ HAlive
    /\ hpc[t] = "start"
    /\ hmu = "free"
    /\ IF hstop # 0
       THEN /\ hmu' = "locked"
            /\ hpc' = [hpc EXCEPT ![t] = "idle"]
            /\ hret' = [hret EXCEPT ![t] = "started"]
            /\ UNCHANGED <<hstop, hvals>>
       ELSE /\ hstop' = Cardinality(hclosed) + 1
            /\ hvals' = hvals \cup {Cardinality(hclosed) + 1}
            /\ hpc' = [hpc EXCEPT ![t] = "start_go"]
            /\ UNCHANGED <<hmu, hret>>
    /\ UNCHANGED <<hclosed, hinput, houtput, hsink, hgs, hstopped, hlate,
                   hncalls, hnrecs>>
    /\ HFrame

\* Start: the go statement
StartGo(t) ==
    /\ HAlive
    /\ hpc[t] = "start_go"
    /\ hgs' = Append(hgs, [pc |-> "loop", c |-> 0, msg |-> 0])
    /\ hpc' = [hpc EXCEPT ![t] = "idle"]
    /\ hret' = [hret EXCEPT ![t] = "start"]
    /\ UNCHANGED <<hmu, hstop, hclosed, hvals, hinput, houtput, hsink,
                   hstopped, hlate, hncalls, hnrecs>>
    /\ HFrame

\* Stop, from h.mu.Lock(): close(h.stop) panics on a nil channel, and the
\* deferred Unlock runs in both cases
StopLock(t) ==
    /\ HAlive
    /\ hpc[t] = "stop"
    /\ hmu = "free"
    /\ IF hstop = 0
       THEN /\ hpc' = [hpc EXCEPT ![t] = "panic"]
            /\ UNCHANGED <<hstop, hclosed, hvals, hret, hstopped>>
       ELSE /\ hclosed' = hclosed \cup {hstop}
            /\ hstop' = 0
            /\ hvals' = hvals \cup {0}
            /\ hpc' = [hpc EXCEPT ![t] = "idle"]
            /\ hret' = [hret EXCEPT ![t] = "stop"]
            /\ hstopped' = \A u \in Threads : hpc[u] \notin {"start", "start_go"}
    /\ UNCHANGED <<hmu, hinput, houtput, hsink, hgs, hlate, hncalls, hnrecs>>
    /\ HFrame

\* SetOutput, from h.mu.Lock()
SetOutputLock(t) ==
    /\ HAlive
    /\ hpc[t] = "setoutput"
    /\ hmu = "free"
    /\ \E o \in HOutputs : houtput' = o
    /\ hpc' = [hpc EXCEPT ![t] = "idle"]
    /\ hret' = [hret EXCEPT ![t] = "setoutput"]
    /\ UNCHANGED <<hmu, hstop, hclosed, hvals, hinput, hsink, hgs, hstopped,
                   hlate, hncalls, hnrecs>>
    /\ HFrame

\* h.input <- fields: the buffer of 100 is never full within MaxHRecords
HandlerSend ==
    /\ HAlive
    /\ hnrecs < MaxHRecords
    /\ hinput' = Append(hinput, hnrecs + 1)
    /\ hnrecs' = hnrecs + 1
    /\ hlate' = IF hstopped THEN hlate \cup {hnrecs + 1} ELSE hlate
    /\ UNCHANGED <<hmu, hstop, hclosed, hvals, houtput, hsink, hgs, hpc, hret,
                   hstopped, hncalls>>
    /\ HFrame

\* the goroutine reaches the select: it evaluates h.stop without holding
\* h.mu, so it gets one of the values written to it
GoSelect(g) ==
    /\ HAlive
    /\ g \in DOMAIN hgs
    /\ hgs[g].pc = "loop"
    /\ \E c \in hvals : hgs' = [hgs EXCEPT ![g] = [pc |-> "select", c |-> c, msg |-> 0]]
    /\ UNCHANGED <<hmu, hstop, hclosed, hvals, hinput, houtput, hsink, hpc,
                   hret, hstopped, hlate, hncalls, hnrecs>>
    /\ HFrame

\* case msg := <-h.input
GoRecv(g) ==
    /\ HAlive
    /\ g \in DOMAIN hgs
    /\ hgs[g].pc = "select"
    /\ hinput # <<>>
    /\ hgs' = [hgs EXCEPT ![g] = [pc |-> "write", c |-> 0, msg |-> Head(hinput)]]
    /\ hinput' = Tail(hinput)
    /\ UNCHANGED <<hmu, hstop, hclosed, hvals, houtput, hsink, hpc, hret,
                   hstopped, hlate, hncalls, hnrecs>>
    /\ HFrame

\* h.output.Write(msg), then the next turn of the for loop
GoWrite(g) ==
    /\ HAlive
    /\ g \in DOMAIN hgs
    /\ hgs[g].pc = "write"
    /\ hsink' = Append(hsink, [id |-> hgs[g].msg, o |-> houtput])
    /\ hgs' = [hgs EXCEPT ![g] = [pc |-> "loop", c |-> 0, msg |-> 0]]
    /\ UNCHANGED <<hmu, hstop, hclosed, hvals, hinput, houtput, hpc, hret,
                   hstopped, hlate, hncalls, hnrecs>>
    /\ HFrame

\* case <-h.stop: break, which leaves the select and not the for loop
GoBreak(g) ==
    /\ HAlive
    /\ g \in DOMAIN hgs
    /\ hgs[g].pc = "select"
    /\ hgs[g].c \in hclosed
    /\ hgs' = [hgs EXCEPT ![g] = [pc |-> "loop", c |-> 0, msg |-> 0]]
    /\ UNCHANGED <<hmu, hstop, hclosed, hvals, hinput, houtput, hsink, hpc,
                   hret, hstopped, hlate, hncalls, hnrecs>>
    /\ HFrame

NextHandler ==
    \/ \E t \in Threads : \/ HandlerCall(t, "start")
                          \/ HandlerCall(t, "stop")
                          \/ HandlerCall(t, "setoutput")
                          \/ StartLock(t)
                          \/ StartGo(t)
                          \/ StopLock(t)
                          \/ SetOutputLock(t)
    \/ HandlerSend
    \/ \E g \in 1..(MaxHCalls + 1) : \/ GoSelect(g)
                                      \/ GoRecv(g)
                                      \/ GoWrite(g)
                                      \/ GoBreak(g)

SpecHandler == InitHandler /\ [][NextHandler]_vars

\* the records the outputs received, and the ones a goroutine holds
HWritten == {hsink[i].id : i \in DOMAIN hsink}
HHeld == {hgs[g].msg : g \in {x \in DOMAIN hgs : hgs[x].pc = "write"}}

\* C28: once Stop has returned (and until Start is called again) h.stop is
\* nil and the goroutine is stopped: no record placed on h.input since then
\* is received or written.
C28_StopStopsGoroutine ==
    hstopped =>
        /\ hstop = 0
        /\ hlate \cap (HWritten \cup HHeld) = {}

\* C29: a Start that found the handler started has released h.mu when it
\* returns, so that a following SetOutput, Start or Stop can take it.
C29_StartAgainHarmless ==
    \A t \in Threads :
        hpc[t] = "idle" /\ hret[t] = "started" =>
            hmu = "free"

\* ------------------------------ SpecClose: logger.close and stale loggers
MaxCloseOps == 4

\* a Config, with or without pooling; no logger made yet
InitClose ==
    /\ ChanIdle
    /\ LoggerIdle
    /\ ExtractIdle
    /\ OutputIdle
    /\ PoolIdle
    /\ FmtIdle
    /\ MoreIdle
    /\ \E cf \in {NilFields, MapFields(("a" :> 1))}, lv \in {LevelDebug, LevelWarn},
          dp \in BOOLEAN :
          /\ cfg = [Level |-> lv, Output |-> "recorder",
                    Fields |-> IF cf.nil THEN Nil ELSE 1, DisablePooling |-> dp]
          /\ maps = IF cf.nil THEN <<>> ELSE <<cf.kv>>
    /\ lgs = <<>>
    /\ fpanic = FALSE
    /\ got = NoRef
    /\ nops = 0
    /\ lastOp = [op |-> "none", l |-> 0]

\* one call on logger l, leaving the store st, the pool pl and the records rs
ClosedCall(o, l, st, pl, rs) ==
    /\ nops < MaxCloseOps
    /\ nops' = nops + 1
    /\ lastOp' = [op |-> o, l |-> l]
    /\ maps' = st.maps
    /\ lgs' = st.lgs
    /\ fpanic' = st.panic
    /\ pool' = pl
    /\ precs' = rs
    /\ UNCHANGED <<cfg, got, rq, nreq>>
    /\ UNCHANGED <<oldVars, outVars, fmtVars, moreVars>>

\* l := New(cfg): a new instance when pooling is disabled or the pool is
\* empty (p = 0), instance p of the pool otherwise
CloseNew(p) ==
    /\ cfg.DisablePooling => p = 0
    /\ LET n == DoNew(Store, p, cfg)
       IN  ClosedCall("New", n.l, n.st, pool \ {p}, precs)

\* l.SetField("req", 2), through any reference to l
CloseSetField(l) ==
    ClosedCall("SetField", l, DoSetField(Store, l, "req", 2), pool, precs)

\* l.OutputF(level, ...) through any reference to l: send
CloseLog(l, level) ==
    ClosedCall("Log", l, Store, pool,
               IF Gated(level, lgs[l].level, lgs[l].output # "nil")
               THEN precs
               ELSE precs \cup {[req |-> nops + 1, l |-> l,
                                 fields |-> SendData(level, "msg", EmptyMap,
                                                     FieldsOf(l))]})

\* l.close(), by the holder of l: reset and loggerPool.Put(l), unless pooling
\* is disabled
CloseClose(l) ==
    /\ l \notin pool
    /\ ClosedCall("close", l, DoClose(Store, l),
                  IF lgs[l].disablePooling THEN pool ELSE pool \cup {l}, precs)

NextClose ==
    \/ \E p \in 0..MaxCloseOps : p \in pool \cup {0} /\ CloseNew(p)
    \/ \E l \in 1..MaxCloseOps : l \in DOMAIN lgs /\ CloseSetField(l)
    \/ \E l \in 1..MaxCloseOps, level \in {LevelDebug, LevelError} :
          l \in DOMAIN lgs /\ CloseLog(l, level)
    \/ \E l \in 1..MaxCloseOps : l \in DOMAIN lgs /\ CloseClose(l)

SpecClose == InitClose /\ [][NextClose]_vars

\* C30: close on a pooled logger sets level to 0 and output and fields to nil
\* and puts the instance in the pool, and a log call on an instance that is
\* in the pool emits nothing; close on a logger with pooling disabled leaves
\* the instance and the pool as they were.
C30_CloseResets ==
    [][/\ Did("close") /\ ~lgs[lastOp'.l].disablePooling =>
            /\ lgs'[lastOp'.l] = ZeroLogger
            /\ lastOp'.l \in pool'
       /\ Did("close") /\ lgs[lastOp'.l].disablePooling =>
            /\ lgs' = lgs
            /\ maps' = maps
            /\ pool' = pool
       /\ Did("Log") /\ lastOp'.l \in pool => precs' = precs]_vars

\* C30 witness: a logger that had logged was closed, and a later call at
\* debug level through the stale reference emitted nothing
C30_Witness ==
    /\ lastOp.op = "Log"
    /\ lastOp.l \in pool
    /\ \E r \in precs : r.l = lastOp.l
    /\ \A r \in precs : r.req < nops

=============================================================================
